---- MODULE Spec2Model ----
(***************************************************************************)
(* Trade lifecycle and escrow engine of the crypto-backend repository.     *)
(*                                                                         *)
(* The request handlers of TradeController are asynchronous functions:     *)
(* every awaited database or network call is a point where another         *)
(* handler may run.  A handler instance is a process whose position pc is  *)
(* the call it is about to await; one action models one such call and the  *)
(* synchronous code up to the next awaited call.                           *)
(*                                                                         *)
(* Units: BTC amounts and balances are integers in satoshi (1e-8 BTC, the  *)
(* scale of decimal(20,8) and of toFixed(8)); fiat amounts with margin and *)
(* prices are integers in cents (decimal(20,2), toFixed(2)); requested     *)
(* fiat amounts and market prices are whole currency units; time is in     *)
(* minutes.                                                                *)
(***************************************************************************)
EXTENDS Integers, Sequences, FiniteSets, TLC

(* ------------------------------ bounds -------------------------------- *)

\* number of request handlers that can be in flight at the same time
NumProcs == 2
\* rows the trades table can hold
MaxTrades == 2
\* requests that get past the checks of their handler, and expiries, in a run
MaxOps == 4
\* database write calls that may throw during a run
MaxFailures == 1
\* last minute of the clock
MaxTime == 30

Procs == 1..NumProcs

(* --------------------------- static tables ---------------------------- *)

\* user ids; 0 stands for a JWT whose email matches no user row
Users == 1..4
Callers == 0..4

\* the columns of the user row that the trade handlers read
UserTable ==
  [u \in Users |->
     CASE u = 1 -> [health |-> "active", is_verified |-> TRUE,  name |-> "Alice A",
                    role |-> "user"]
       [] u = 2 -> [health |-> "active", is_verified |-> TRUE,  name |-> "Bob B",
                    role |-> "user"]
       [] u = 3 -> [health |-> "suspended", is_verified |-> FALSE, name |-> "C",
                    role |-> "user"]
       [] u = 4 -> [health |-> "active", is_verified |-> FALSE, name |-> "D",
                    role |-> "admin"]]

\* balances (satoshi) before any trade
InitBalance ==
  [u \in Users |-> CASE u = 1 -> 2500000 [] u = 2 -> 30000 [] OTHER -> 0]

OfferIds == 1..8
\* offer id 9 matches no offer row
OfferInputs == 1..9

DefaultOffer ==
  [user_id |-> 1, type |-> "sell", currency |-> "USD", margin |-> 0,
   minimum |-> 0, maximum |-> 0, status |-> "active", active |-> TRUE,
   deauth |-> FALSE, id_verification |-> FALSE, full_name_required |-> FALSE,
   minimum_trades |-> 0, new_trader_limit |-> FALSE, vpn_blocked |-> FALSE,
   limit_countries |-> "none", blocked_countries |-> {}, allowed_countries |-> {}]

OfferTable ==
  [o \in OfferIds |->
     CASE o = 1 -> [DefaultOffer EXCEPT !.margin = 5, !.minimum = 50, !.maximum = 5000,
                                        !.id_verification = TRUE,
                                        !.vpn_blocked = TRUE,
                                        !.limit_countries = "blocked",
                                        !.blocked_countries = {"KP"}]
       [] o = 2 -> [DefaultOffer EXCEPT !.user_id = 2, !.type = "buy", !.margin = -5,
                                        !.currency = "usd", !.minimum = 50,
                                        !.id_verification = TRUE]
       [] o = 3 -> [DefaultOffer EXCEPT !.status = "paused", !.deauth = TRUE]
       [] o = 4 -> [DefaultOffer EXCEPT !.margin = 150, !.minimum = 50,
                                        !.full_name_required = TRUE]
       [] o = 5 -> [DefaultOffer EXCEPT !.minimum = 50, !.id_verification = TRUE,
                                        !.new_trader_limit = TRUE,
                                        !.minimum_trades = MaxTrades + 1,
                                        !.vpn_blocked = TRUE,
                                        !.limit_countries = "allowed",
                                        !.allowed_countries = {"US"}]
       [] o = 6 -> [DefaultOffer EXCEPT !.deauth = TRUE, !.id_verification = TRUE,
                                        !.full_name_required = TRUE,
                                        !.minimum = 50, !.maximum = 500]
       [] o = 7 -> [DefaultOffer EXCEPT !.minimum = 10, !.maximum = 1000,
                                        !.new_trader_limit = TRUE,
                                        !.minimum_trades = MaxTrades + 1]
       [] o = 8 -> [DefaultOffer EXCEPT !.user_id = 4, !.maximum = 500,
                                        !.new_trader_limit = TRUE,
                                        !.minimum_trades = 1,
                                        !.limit_countries = "allowed",
                                        !.allowed_countries = {"US"}]]

\* inputs of the handlers
FiatAmounts == {10, 1000}
RequestIds == {"r1", "r2"}
Countries == {"", "kp", "us"}
\* cancelTrade: no reason given, so that the repository stores its default
CancelReasons == {""}
DisputeReasons == {"not paid"}
DisputeExplanations == {"buyer never sent the money"}
ModNotes == {"reviewed"}
\* rates the exchange-rate endpoint can answer with; 0 is a missing, zero or
\* non-numeric rate
Rates == {0, 50000}

(* ------------------------------- time --------------------------------- *)

\* minutes the clock advances in one step
TickMinutes == 30
\* createTrade: expiryTime.setMinutes(getMinutes() + 30)
CreateExpiryMinutes == 30
\* reopenTrade: expiryTime.setHours(getHours() + 24)
ReopenExpiryMinutes == 1440
\* PriceService: cacheTtlSeconds = 60
CacheTtlMinutes == 1

(* ------------------------------ pricing ------------------------------- *)

\* floor(n * 10^k / d) and the remainder, by long division (r < d throughout)
RECURSIVE LongDiv(_, _, _, _)
LongDiv(q, r, d, k) ==
  IF k = 0 THEN <<q, r>>
  ELSE LongDiv(q * 10 + ((r * 10) \div d), (r * 10) % d, d, k - 1)

\* Math.round(n / d * 10^k): n * 10^k / d rounded half up, for n >= 0, d > 0
RoundScaled(n, d, k) ==
  LET qr == LongDiv(n \div d, n % d, d, k)
  IN  IF 2 * qr[2] >= d THEN qr[1] + 1 ELSE qr[1]

Abs(x) == IF x < 0 THEN -x ELSE x

\* String.prototype.toUpperCase on the currency codes and country codes in use
ToUpperCase(s) ==
  CASE s = "usd" -> "USD"
    [] s = "kp" -> "KP"
    [] s = "us" -> "US"
    [] OTHER -> s

\* margin is decimal(20, 2) and the amounts are stored with 2 decimals: a
\* decimal input of the pricing functions is given in hundredths
InputScale == 100

\* PriceService.calculatePricing in exact arithmetic on the inputs
\* marginPct / scale, currentBtcPrice / scale and fiatAmount / scale; price
\* and fiat_amount_with_margin in cents, btc_amount_with_margin in satoshi
calculatePricingAt(scale, marginPct, currentBtcPrice, fiatAmount) ==
  LET priceNum == IF marginPct < 0
                    THEN (100 * scale - Abs(marginPct)) * currentBtcPrice
                    ELSE (100 * scale + marginPct) * currentBtcPrice
      fiatNum  == IF marginPct < 0
                    THEN (100 * scale + Abs(marginPct)) * fiatAmount
                    ELSE (100 * scale - Abs(marginPct)) * fiatAmount
  IN  [price |-> RoundScaled(priceNum, 100 * scale * scale, 2),
       fiat_amount_with_margin |-> RoundScaled(fiatNum, 100 * scale * scale, 2),
       btc_amount_with_margin |->
         RoundScaled(fiatNum, 100 * scale * currentBtcPrice, 8)]

\* PriceService.calculatePricing; marginPct in whole percent, currentBtcPrice
\* and fiatAmount in whole units; price and fiat_amount_with_margin in cents,
\* btc_amount_with_margin in satoshi
calculatePricing(marginPct, currentBtcPrice, fiatAmount) ==
  calculatePricingAt(1, marginPct, currentBtcPrice, fiatAmount)

\* convertFiatToBtc cutting the quotient off after 8 decimals
convertFiatToBtc_Truncated(fiatAmount, currentBtcPrice) ==
  LongDiv(fiatAmount \div currentBtcPrice, fiatAmount % currentBtcPrice,
          currentBtcPrice, 8)[1]

\* PriceService.convertFiatToBtc, result in satoshi
convertFiatToBtc(fiatAmount, currentBtcPrice) ==
  RoundScaled(fiatAmount, currentBtcPrice, 8)

\* n * 10^k / d lies exactly half way between two integers
Tie(n, d, k) == 2 * LongDiv(n \div d, n % d, d, k)[2] = d

\* the results PriceService.calculatePricing can return in double arithmetic.
\* The factors (100 +- margin) / 100 and the quotients are rounded to 53 bits,
\* so the product that Math.round sees lies a little above or below the exact
\* value: where the exact value is half way between two integers the error
\* decides the direction (margin 5, price 128, fiat 3: 2.85 / 128 * 1e8 is
\* computed as 2226562.4999999995 and rounded to 2226562; margin 13, price
\* 0.50: 0.565 * 100 is computed as 56.49999999999999 and rounded to 56).
\* Both directions are kept at a tie.
calculatePricingResults(scale, marginPct, currentBtcPrice, fiatAmount) ==
  LET exact == calculatePricingAt(scale, marginPct, currentBtcPrice, fiatAmount)
      sign == IF marginPct < 0 THEN -1 ELSE 1
      priceNum == (100 * scale + sign * Abs(marginPct)) * currentBtcPrice
      fiatNum == (100 * scale - sign * Abs(marginPct)) * fiatAmount
      down(isTie) == IF isTie THEN {0, 1} ELSE {0}
  IN  { [price |-> exact.price - a,
         fiat_amount_with_margin |-> exact.fiat_amount_with_margin - b,
         btc_amount_with_margin |-> exact.btc_amount_with_margin - c] :
          a \in down(Tie(priceNum, 100 * scale * scale, 2)),
          b \in down(Tie(fiatNum, 100 * scale * scale, 2)),
          c \in down(Tie(fiatNum, 100 * scale * currentBtcPrice, 8)) }

\* the results PriceService.convertFiatToBtc can return in double arithmetic
\* (fiat 0.09, price 25.60: 351562.5 is rounded to 351562)
convertFiatToBtcResults(fiatAmount, currentBtcPrice) ==
  { convertFiatToBtc(fiatAmount, currentBtcPrice) - a :
      a \in IF Tie(fiatAmount, currentBtcPrice, 8) THEN {0, 1} ELSE {0} }

(* ------------------------------- state -------------------------------- *)

VARIABLES
  trades,     \* the trades table: row i is the trade with id i
  balance,    \* user.balance of every user, in satoshi
  proc,       \* the request handlers in flight
  response,   \* the response returned by the step just taken, "none" if none
  now,        \* the clock
  cache,      \* PriceService.cache
  escrow,     \* history of the escrow of every trade: satoshi debited from the
              \* seller and credited out, how often it was locked, refunded
              \* and credited to the buyer, how many releaseCrypto calls
              \* succeeded, how often expireTrade ran on it after it had
              \* expired it, and the balance the seller had when the cancel
              \* of the trade read it, as long as nothing but that cancel has
              \* written the seller's balance since
  ledger,     \* history, per user: sum of the amounts the handlers added to
              \* (subtracted from) the balance they had read
  failures,   \* database writes that have thrown so far
  ops,        \* requests accepted so far
  expected,   \* history: the error of the earliest eligibility rule that the
              \* create request just examined fails, "none" if it fails none
  call        \* a call of the pricing functions: its arguments and results

vars == <<trades, balance, proc, response, now, cache, escrow, ledger, failures, ops,
         expected, call>>

Statuses == {"OPENED", "PAID", "SUCCESSFUL", "CANCELLED_BUYER", "CANCELLED_SELLER",
             "CANCELLED_SYSTEM", "AWARDED_BUYER", "AWARDED_SELLER", "DISPUTED"}

NoEntry == [value |-> 0, fetchedAt |-> -1]

Idle ==
  [pc |-> "idle", op |-> "none", user |-> 0, id |-> 0,
   offer |-> 0, fiat |-> 0, rid |-> "",
   btcOrig |-> 0, pricing |-> [price |-> 0, fiat_amount_with_margin |-> 0,
                               btc_amount_with_margin |-> 0],
   seller |-> 0, buyer |-> 0, escrowAmount |-> 0, buyerAmount |-> 0,
   sellerAmount |-> 0, sellerBalance |-> 0, buyerBalance |-> 0,
   by |-> "", reason |-> "", explanation |-> "", notes |-> ""]

\* no call of the pricing functions
NoCall ==
  [marginPct |-> 0, currentBtcPrice |-> 0, fiatAmount |-> 0,
   priced |-> FALSE, pricing |-> [price |-> 0, fiat_amount_with_margin |-> 0,
                                  btc_amount_with_margin |-> 0],
   converted |-> FALSE, btc |-> 0,
   asked |-> FALSE, at |-> 0, threw |-> FALSE, value |-> 0]

Init ==
  /\ trades = <<>>
  /\ balance = InitBalance
  /\ proc = [p \in Procs |-> Idle]
  /\ response = "none"
  /\ now = 0
  /\ cache = [c \in {"USD"} |-> NoEntry]
  /\ escrow = <<>>
  /\ ledger = [u \in Users |-> 0]
  /\ failures = 0
  /\ ops = 0
  /\ expected = "none"
  /\ call = NoCall

(* --------------------------- common pieces ---------------------------- *)

TradeIds == 1..MaxTrades

\* whether TradeRepository.findById(id) finds a row
Found(id) == id \in 1..Len(trades)

\* TradeRepository.findById, for an id that is found
findById(id) == trades[id]

\* whether TradeRepository.findByRequestId finds a row
findByRequestId(requestId) ==
  \E i \in 1..Len(trades) : trades[i].request_id = requestId

\* TradeRepository.getCount(userId): trades in which the user is a party
getCount(userId) ==
  Cardinality({i \in 1..Len(trades) : trades[i].buyer = userId \/ trades[i].seller = userId})

\* UserService.getBalance
getBalance(userId) == balance[userId]

\* UserService.setBalance
setBalance(userId, newBalance) == [balance EXCEPT ![userId] = newBalance]

\* history: no balance of the seller before a cancel is on record
Unknown == [known |-> FALSE, value |-> 0]

\* history: the balance of userId is written on behalf of trade id (0: of a
\* trade not inserted yet); the balances on record for the other trades this
\* user sells in no longer stand.  esc is the escrow history to update
Touch(esc, userId, id) ==
  [t \in DOMAIN esc |->
     IF t # id /\ trades[t].seller = userId
       THEN [esc[t] EXCEPT !.sellerBefore = Unknown] ELSE esc[t]]

\* the handler returns r: its slot becomes free
Return(p, r) ==
  /\ proc' = [proc EXCEPT ![p] = Idle]
  /\ response' = r

\* the handler goes on to await the call named l.pc, with its locals l
Await(p, l) ==
  /\ proc' = [proc EXCEPT ![p] = l]
  /\ response' = "none"

\* a new request is served in the lowest free slot (the slots are anonymous)
Free(p) ==
  /\ response = "none"
  /\ proc[p].pc = "idle" /\ \A q \in Procs : q < p => proc[q].pc # "idle"
  /\ ops < MaxOps

\* handler p of operation op is about to await the call pc
At(p, op, pc) == response = "none" /\ proc[p].op = op /\ proc[p].pc = pc

\* handlers in flight that will insert a trade
Creating == {q \in Procs : proc[q].op = "createTrade"}

(* ---------------------------- PriceService ---------------------------- *)

\* getBtcPrice falling back to the cached value, however old, when the fetch
\* fails
getBtcPrice_StaleOnFailure(fiatCurrency, respOk, raw) ==
  LET currency == ToUpperCase(fiatCurrency)
      cached == cache[currency]
  IN  IF cached # NoEntry /\ now - cached.fetchedAt < CacheTtlMinutes
        THEN [threw |-> FALSE, value |-> cached.value, cache |-> cache]
      ELSE IF ~respOk \/ raw = 0
        THEN [threw |-> cached = NoEntry, value |-> cached.value, cache |-> cache]
      ELSE [threw |-> FALSE, value |-> raw,
            cache |-> [cache EXCEPT ![currency] = [value |-> raw, fetchedAt |-> now]]]

\* PriceService.getBtcPrice; respOk and raw are the answer of the exchange-rate
\* endpoint if it is asked.  threw: the call throws; value: the price returned;
\* cache: the cache afterwards
getBtcPrice(fiatCurrency, respOk, raw) ==
  LET currency == ToUpperCase(fiatCurrency)
      cached == cache[currency]
  IN  IF cached # NoEntry /\ now - cached.fetchedAt < CacheTtlMinutes
        THEN [threw |-> FALSE, value |-> cached.value, cache |-> cache]
      ELSE IF ~respOk \/ raw = 0
        THEN [threw |-> TRUE, value |-> 0, cache |-> cache]
      ELSE [threw |-> FALSE, value |-> raw,
            cache |-> [cache EXCEPT ![currency] = [value |-> raw, fetchedAt |-> now]]]

(* ----------------------------- createTrade ---------------------------- *)

\* the eligibility rules in their order of precedence, each with whether the
\* request fails it and the error it answers with; myTrades is the trade count
\* of the requester
EligibilityChecks(user, offer_id, fiat_amount, vpn, country, myTrades) ==
  LET exists == offer_id \in OfferIds
      offer == IF exists THEN OfferTable[offer_id] ELSE DefaultOffer
      u == UserTable[user]
      iso == ToUpperCase(country)
  IN << [fails |-> ~exists, error |-> "OfferNotFound"],
        [fails |-> offer.status # "active" \/ ~offer.active, error |-> "OfferInactive"],
        [fails |-> offer.user_id = user, error |-> "SelfTrade"],
        [fails |-> u.health # "active", error |-> "AccountNotActive"],
        [fails |-> offer.deauth, error |-> "OfferDeauthorized"],
        [fails |-> offer.id_verification /\ ~u.is_verified,
         error |-> "VerificationRequired"],
        [fails |-> offer.full_name_required /\ Len(u.name) < 2,
         error |-> "FullNameRequired"],
        [fails |-> \/ offer.minimum # 0 /\ fiat_amount < offer.minimum
                   \/ offer.maximum # 0 /\ fiat_amount > offer.maximum,
         error |-> "AmountOutOfBounds"],
        [fails |-> offer.new_trader_limit /\ myTrades < offer.minimum_trades,
         error |-> "InsufficientTradeHistory"],
        [fails |-> offer.vpn_blocked /\ vpn, error |-> "VpnBlocked"],
        [fails |-> /\ iso # ""
                   /\ \/ offer.limit_countries = "blocked" /\ iso \in offer.blocked_countries
                      \/ offer.limit_countries = "allowed" /\ iso \notin offer.allowed_countries,
         error |-> "GeoRestricted"] >>

\* the error of the earliest rule the request fails, "none" if it fails no rule
FirstFailing(checks) ==
  LET F == {i \in 1..Len(checks) : checks[i].fails}
  IN  IF F = {} THEN "none"
      ELSE checks[CHOOSE i \in F : \A j \in F : i <= j].error

\* the errors of the rules that follow the awaited trade count
LateErrors == {"InsufficientTradeHistory", "VpnBlocked", "GeoRestricted"}

\* C11 mutant: createTrade with the de-authorization rule examined before the
\* account-health rule
createTrade_DeauthBeforeHealth(p, user, offer_id, fiat_amount, request_id) ==
  /\ Free(p)
  /\ Len(trades) + Cardinality(Creating) < MaxTrades
  /\ IF user = 0 THEN Return(p, "UserNotFound")
     ELSE IF offer_id \notin OfferIds THEN Return(p, "OfferNotFound")
     ELSE LET offer == OfferTable[offer_id]
              u == UserTable[user]
              min == offer.minimum
              max == offer.maximum
          IN
       IF findByRequestId(request_id) THEN Return(p, "DuplicateRequestId")
       ELSE IF offer.status # "active" \/ ~offer.active THEN Return(p, "OfferInactive")
       ELSE IF offer.user_id = user THEN Return(p, "SelfTrade")
       ELSE IF offer.deauth THEN Return(p, "OfferDeauthorized")
       ELSE IF u.health # "active" THEN Return(p, "AccountNotActive")
       ELSE IF offer.id_verification /\ ~u.is_verified THEN Return(p, "VerificationRequired")
       ELSE IF offer.full_name_required /\ Len(u.name) < 2 THEN Return(p, "FullNameRequired")
       ELSE IF min # 0 /\ fiat_amount < min THEN Return(p, "AmountOutOfBounds")
       ELSE IF max # 0 /\ fiat_amount > max THEN Return(p, "AmountOutOfBounds")
       ELSE Await(p, [Idle EXCEPT !.pc = "getCount", !.op = "createTrade",
                                  !.user = user, !.offer = offer_id,
                                  !.fiat = fiat_amount, !.rid = request_id])
  /\ ops' = IF proc'[p].pc = "idle" THEN ops ELSE ops + 1
  /\ expected' =
       IF user = 0 \/ (offer_id \in OfferIds /\ findByRequestId(request_id)) THEN "none"
       ELSE LET e == FirstFailing(EligibilityChecks(user, offer_id, fiat_amount, FALSE,
                                                    "", getCount(user)))
            IN  IF e \in LateErrors THEN "none" ELSE e
  /\ UNCHANGED <<call, trades, balance, now, cache, escrow, ledger, failures>>

\* C14 mutant: createTrade without the check that the requester is not the
\* owner of the offer
createTrade_NoSelfTradeCheck(p, user, offer_id, fiat_amount, request_id) ==
  /\ Free(p)
  /\ Len(trades) + Cardinality(Creating) < MaxTrades
  /\ IF user = 0 THEN Return(p, "UserNotFound")
     ELSE IF offer_id \notin OfferIds THEN Return(p, "OfferNotFound")
     ELSE LET offer == OfferTable[offer_id]
              u == UserTable[user]
              min == offer.minimum
              max == offer.maximum
          IN
       IF findByRequestId(request_id) THEN Return(p, "DuplicateRequestId")
       ELSE IF offer.status # "active" \/ ~offer.active THEN Return(p, "OfferInactive")
       ELSE IF u.health # "active" THEN Return(p, "AccountNotActive")
       ELSE IF offer.deauth THEN Return(p, "OfferDeauthorized")
       ELSE IF offer.id_verification /\ ~u.is_verified THEN Return(p, "VerificationRequired")
       ELSE IF offer.full_name_required /\ Len(u.name) < 2 THEN Return(p, "FullNameRequired")
       ELSE IF min # 0 /\ fiat_amount < min THEN Return(p, "AmountOutOfBounds")
       ELSE IF max # 0 /\ fiat_amount > max THEN Return(p, "AmountOutOfBounds")
       ELSE Await(p, [Idle EXCEPT !.pc = "getCount", !.op = "createTrade",
                                  !.user = user, !.offer = offer_id,
                                  !.fiat = fiat_amount, !.rid = request_id])
  /\ ops' = IF proc'[p].pc = "idle" THEN ops ELSE ops + 1
  /\ expected' =
       IF user = 0 \/ (offer_id \in OfferIds /\ findByRequestId(request_id)) THEN "none"
       ELSE LET e == FirstFailing(EligibilityChecks(user, offer_id, fiat_amount, FALSE,
                                                    "", getCount(user)))
            IN  IF e \in LateErrors THEN "none" ELSE e
  /\ UNCHANGED <<call, trades, balance, now, cache, escrow, ledger, failures>>

\* createTrade rejecting an amount equal to a bound of the offer as well
createTrade_BoundsExcluded(p, user, offer_id, fiat_amount, request_id) ==
  /\ Free(p)
  /\ Len(trades) + Cardinality(Creating) < MaxTrades
  /\ IF user = 0 THEN Return(p, "UserNotFound")
     ELSE IF offer_id \notin OfferIds THEN Return(p, "OfferNotFound")
     ELSE LET offer == OfferTable[offer_id]
              u == UserTable[user]
              min == offer.minimum
              max == offer.maximum
          IN
       IF findByRequestId(request_id) THEN Return(p, "DuplicateRequestId")
       ELSE IF offer.status # "active" \/ ~offer.active THEN Return(p, "OfferInactive")
       ELSE IF offer.user_id = user THEN Return(p, "SelfTrade")
       ELSE IF u.health # "active" THEN Return(p, "AccountNotActive")
       ELSE IF offer.deauth THEN Return(p, "OfferDeauthorized")
       ELSE IF offer.id_verification /\ ~u.is_verified THEN Return(p, "VerificationRequired")
       ELSE IF offer.full_name_required /\ Len(u.name) < 2 THEN Return(p, "FullNameRequired")
       ELSE IF min # 0 /\ fiat_amount <= min THEN Return(p, "AmountOutOfBounds")
       ELSE IF max # 0 /\ fiat_amount >= max THEN Return(p, "AmountOutOfBounds")
       ELSE Await(p, [Idle EXCEPT !.pc = "getCount", !.op = "createTrade",
                                  !.user = user, !.offer = offer_id,
                                  !.fiat = fiat_amount, !.rid = request_id])
  /\ ops' = IF proc'[p].pc = "idle" THEN ops ELSE ops + 1
  /\ expected' =
       IF user = 0 \/ (offer_id \in OfferIds /\ findByRequestId(request_id)) THEN "none"
       ELSE LET e == FirstFailing(EligibilityChecks(user, offer_id, fiat_amount, FALSE,
                                                    "", getCount(user)))
            IN  IF e \in LateErrors THEN "none" ELSE e
  /\ UNCHANGED <<call, trades, balance, now, cache, escrow, ledger, failures>>

\* TradeController.createTrade from getUser to the awaited getCount: the offer
\* lookup, the duplicate check and the checks on the offer and the user.  The
\* VPN flag and the country of the request are first read after getCount and
\* are drawn there
createTrade(p, user, offer_id, fiat_amount, request_id) ==
  /\ Free(p)
  /\ Len(trades) + Cardinality(Creating) < MaxTrades
  /\ IF user = 0 THEN Return(p, "UserNotFound")
     ELSE IF offer_id \notin OfferIds THEN Return(p, "OfferNotFound")
     ELSE LET offer == OfferTable[offer_id]
              u == UserTable[user]
              min == offer.minimum
              max == offer.maximum
          IN
       IF findByRequestId(request_id) THEN Return(p, "DuplicateRequestId")
       ELSE IF offer.status # "active" \/ ~offer.active THEN Return(p, "OfferInactive")
       ELSE IF offer.user_id = user THEN Return(p, "SelfTrade")
       ELSE IF u.health # "active" THEN Return(p, "AccountNotActive")
       ELSE IF offer.deauth THEN Return(p, "OfferDeauthorized")
       ELSE IF offer.id_verification /\ ~u.is_verified THEN Return(p, "VerificationRequired")
       ELSE IF offer.full_name_required /\ Len(u.name) < 2 THEN Return(p, "FullNameRequired")
       ELSE IF min # 0 /\ fiat_amount < min THEN Return(p, "AmountOutOfBounds")
       ELSE IF max # 0 /\ fiat_amount > max THEN Return(p, "AmountOutOfBounds")
       ELSE Await(p, [Idle EXCEPT !.pc = "getCount", !.op = "createTrade",
                                  !.user = user, !.offer = offer_id,
                                  !.fiat = fiat_amount, !.rid = request_id])
  /\ ops' = IF proc'[p].pc = "idle" THEN ops ELSE ops + 1
  /\ expected' =
       IF user = 0 \/ (offer_id \in OfferIds /\ findByRequestId(request_id)) THEN "none"
       ELSE LET e == FirstFailing(EligibilityChecks(user, offer_id, fiat_amount, FALSE,
                                                    "", getCount(user)))
            IN  IF e \in LateErrors THEN "none" ELSE e
  /\ UNCHANGED <<call, trades, balance, now, cache, escrow, ledger, failures>>

\* createTrade applying the country rule to a request without a country too
createTrade_getCount_UnknownCountryRejected(p, vpn, country) ==
  /\ At(p, "createTrade", "getCount")
  /\ LET l == proc[p]
         offer == OfferTable[l.offer]
         myTrades == getCount(l.user)
         countryIso == ToUpperCase(country)
     IN
       IF offer.new_trader_limit /\ myTrades < offer.minimum_trades
         THEN Return(p, "InsufficientTradeHistory")
       ELSE IF offer.vpn_blocked /\ vpn THEN Return(p, "VpnBlocked")
       ELSE IF /\ offer.limit_countries # "none"
               /\ \/ offer.limit_countries = "blocked" /\ countryIso \in offer.blocked_countries
                  \/ offer.limit_countries = "allowed" /\ countryIso \notin offer.allowed_countries
         THEN Return(p, "GeoRestricted")
       ELSE Await(p, [l EXCEPT !.pc = "getBtcPrice"])
  /\ expected' = LET l == proc[p] IN
       FirstFailing(EligibilityChecks(l.user, l.offer, l.fiat, vpn, country,
                                      getCount(l.user)))
  /\ UNCHANGED <<call, trades, balance, now, cache, escrow, ledger, failures, ops>>

\* createTrade from the awaited getCount to the awaited getBtcPrice: the
\* trade-history, VPN and country rules
createTrade_getCount(p, vpn, country) ==
  /\ At(p, "createTrade", "getCount")
  /\ LET l == proc[p]
         offer == OfferTable[l.offer]
         myTrades == getCount(l.user)
         countryIso == ToUpperCase(country)
     IN
       IF offer.new_trader_limit /\ myTrades < offer.minimum_trades
         THEN Return(p, "InsufficientTradeHistory")
       ELSE IF offer.vpn_blocked /\ vpn THEN Return(p, "VpnBlocked")
       ELSE IF /\ countryIso # "" /\ offer.limit_countries # "none"
               /\ \/ offer.limit_countries = "blocked" /\ countryIso \in offer.blocked_countries
                  \/ offer.limit_countries = "allowed" /\ countryIso \notin offer.allowed_countries
         THEN Return(p, "GeoRestricted")
       ELSE Await(p, [l EXCEPT !.pc = "getBtcPrice"])
  /\ expected' = LET l == proc[p] IN
       FirstFailing(EligibilityChecks(l.user, l.offer, l.fiat, vpn, country,
                                      getCount(l.user)))
  /\ UNCHANGED <<call, trades, balance, now, cache, escrow, ledger, failures, ops>>

\* C13 mutant: createTrade swallows the failure of the price fetch and goes on
\* with a default price
createTrade_getBtcPrice_DefaultPrice(p, respOk, raw) ==
  /\ At(p, "createTrade", "getBtcPrice")
  /\ LET l == proc[p]
         offer == OfferTable[l.offer]
         r == getBtcPrice(offer.currency, respOk, raw)
         currentBtcPrice == IF r.threw THEN 50000 ELSE r.value
         offerType == IF offer.type = "buy" THEN "buy" ELSE "sell"
     IN
       /\ cache' = r.cache
       /\ Await(p, [l EXCEPT
                 !.pc = "getBalance",
                 !.pricing = calculatePricing(offer.margin, currentBtcPrice, l.fiat),
                 !.btcOrig = convertFiatToBtc(l.fiat, currentBtcPrice),
                 !.seller = IF offerType = "sell" THEN offer.user_id ELSE l.user,
                 !.buyer = IF offerType = "sell" THEN l.user ELSE offer.user_id])
  /\ UNCHANGED <<call, expected, trades, balance, now, escrow, ledger, failures, ops>>

\* createTrade recording the requester as the buyer whatever the direction of
\* the offer
createTrade_getBtcPrice_RequesterBuys(p, respOk, raw) ==
  /\ At(p, "createTrade", "getBtcPrice")
  /\ LET l == proc[p]
         offer == OfferTable[l.offer]
         r == getBtcPrice(offer.currency, respOk, raw)
         currentBtcPrice == r.value
         offerType == IF offer.type = "buy" THEN "buy" ELSE "sell"
     IN
       /\ cache' = r.cache
       /\ IF r.threw \/ currentBtcPrice = 0 THEN Return(p, "PriceUnavailable")
          ELSE Await(p, [l EXCEPT
                 !.pc = "getBalance",
                 !.pricing = calculatePricing(offer.margin, currentBtcPrice, l.fiat),
                 !.btcOrig = convertFiatToBtc(l.fiat, currentBtcPrice),
                 !.seller = IF offerType = "sell" THEN offer.user_id ELSE l.user,
                 !.buyer = l.user])
  /\ UNCHANGED <<call, expected, trades, balance, now, escrow, ledger, failures, ops>>

\* createTrade from the awaited getBtcPrice to the awaited getBalance: the price,
\* the pricing computation and the roles of the two parties
createTrade_getBtcPrice(p, respOk, raw) ==
  /\ At(p, "createTrade", "getBtcPrice")
  /\ LET l == proc[p]
         offer == OfferTable[l.offer]
         r == getBtcPrice(offer.currency, respOk, raw)
         currentBtcPrice == r.value
         offerType == IF offer.type = "buy" THEN "buy" ELSE "sell"
     IN
       /\ cache' = r.cache
       /\ IF r.threw \/ currentBtcPrice = 0 THEN Return(p, "PriceUnavailable")
          ELSE Await(p, [l EXCEPT
                 !.pc = "getBalance",
                 !.pricing = calculatePricing(offer.margin, currentBtcPrice, l.fiat),
                 !.btcOrig = convertFiatToBtc(l.fiat, currentBtcPrice),
                 !.seller = IF offerType = "sell" THEN offer.user_id ELSE l.user,
                 !.buyer = IF offerType = "sell" THEN l.user ELSE offer.user_id])
  /\ UNCHANGED <<call, expected, trades, balance, now, escrow, ledger, failures, ops>>

\* C12 mutant: createTrade debits the escrow before it compares the balance
\* with the escrow amount
createTrade_getBalance_DebitFirst(p) ==
  /\ At(p, "createTrade", "getBalance")
  /\ LET l == proc[p]
         funderBalance == getBalance(l.seller)
     IN
       /\ balance' = setBalance(l.seller, funderBalance - l.btcOrig)
       /\ IF funderBalance < l.btcOrig THEN Return(p, "InsufficientEscrowBalance")
          ELSE Await(p, [l EXCEPT !.pc = "setBalance", !.sellerBalance = funderBalance])
  /\ UNCHANGED <<call, expected, trades, now, cache, escrow, ledger, failures, ops>>

\* createTrade from the awaited getBalance to the awaited setBalance: the
\* escrow check against the balance read
createTrade_getBalance(p) ==
  /\ At(p, "createTrade", "getBalance")
  /\ LET l == proc[p]
         funderBalance == getBalance(l.seller)
     IN
       IF funderBalance < l.btcOrig THEN Return(p, "InsufficientEscrowBalance")
       ELSE Await(p, [l EXCEPT !.pc = "setBalance", !.sellerBalance = funderBalance])
  /\ UNCHANGED <<call, expected, trades, balance, now, cache, escrow, ledger, failures, ops>>

\* createTrade: the awaited setBalance, which writes the balance read minus the
\* escrow amount
createTrade_setBalance(p) ==
  /\ At(p, "createTrade", "setBalance")
  /\ LET l == proc[p] IN
       /\ balance' = setBalance(l.seller, l.sellerBalance - l.btcOrig)
       /\ ledger' = [ledger EXCEPT ![l.seller] = @ - l.btcOrig]
       /\ escrow' = Touch(escrow, l.seller, 0)
       /\ Await(p, [l EXCEPT !.pc = "create"])
  /\ UNCHANGED <<call, expected, trades, now, cache, failures, ops>>

\* the row createTrade inserts
NewTrade(l) ==
  [request_id |-> l.rid,
   fiat_amount_original |-> l.fiat,
   fiat_amount_with_margin |-> l.pricing.fiat_amount_with_margin,
   btc_amount_with_margin |-> l.pricing.btc_amount_with_margin,
   btc_amount_original |-> l.btcOrig,
   price |-> l.pricing.price,
   buyer |-> l.buyer,
   seller |-> l.seller,
   offer_id |-> l.offer,
   status |-> "OPENED",
   expiry_time |-> now + CreateExpiryMinutes,
   dispute_started |-> FALSE,
   escrow_return |-> FALSE,
   cancelled |-> "NA",
   dispute_started_by |-> "NULL",
   dispute_reason |-> "NULL",
   dispute_explanation |-> "NULL",
   dispute_mod_notes |-> "NULL"]

\* createTrade: the awaited tradeService.create and the response
createTrade_create(p) ==
  /\ At(p, "createTrade", "create")
  /\ trades' = Append(trades, NewTrade(proc[p]))
  /\ escrow' = Append(escrow, [debited |-> proc[p].btcOrig, credited |-> 0,
                               locks |-> 1, refunds |-> 0, buyerCredits |-> 0,
                               released |-> 0, reExpired |-> 0,
                               sellerBefore |-> Unknown])
  /\ Return(p, "ok")
  /\ UNCHANGED <<call, expected, balance, now, cache, ledger, failures, ops>>

(* ------------------------------ markPaid ------------------------------ *)

\* C15 mutant: markPaid lets either party of the trade through
markPaid_EitherParty(p, user, id) ==
  /\ Free(p)
  /\ IF user = 0 THEN Return(p, "UserNotFound")
     ELSE IF ~Found(id) THEN Return(p, "TradeNotFound")
     ELSE LET existingTrade == findById(id) IN
       IF existingTrade.buyer # user /\ existingTrade.seller # user
         THEN Return(p, "NotParticipant")
       ELSE IF existingTrade.status # "OPENED" THEN Return(p, "InvalidStateTransition")
       ELSE Await(p, [Idle EXCEPT !.pc = "markPaid", !.op = "markPaid", !.id = id])
  /\ ops' = IF proc'[p].pc = "idle" THEN ops ELSE ops + 1
  /\ UNCHANGED <<call, expected, trades, balance, now, cache, escrow, ledger, failures>>

\* TradeController.markPaid up to the awaited tradeService.markPaid
markPaid(p, user, id) ==
  /\ Free(p)
  /\ IF user = 0 THEN Return(p, "UserNotFound")
     ELSE IF ~Found(id) THEN Return(p, "TradeNotFound")
     ELSE LET existingTrade == findById(id) IN
       IF existingTrade.buyer # user THEN Return(p, "NotParticipant")
       ELSE IF existingTrade.status # "OPENED" THEN Return(p, "InvalidStateTransition")
       ELSE Await(p, [Idle EXCEPT !.pc = "markPaid", !.op = "markPaid", !.id = id])
  /\ ops' = IF proc'[p].pc = "idle" THEN ops ELSE ops + 1
  /\ UNCHANGED <<call, expected, trades, balance, now, cache, escrow, ledger, failures>>

\* TradeRepository.markPaid and the response
markPaid_markPaid(p) ==
  /\ At(p, "markPaid", "markPaid")
  /\ trades' = [trades EXCEPT ![proc[p].id].status = "PAID"]
  /\ Return(p, "ok")
  /\ UNCHANGED <<call, expected, balance, now, cache, escrow, ledger, failures, ops>>

(* ----------------------------- cancelTrade ---------------------------- *)

\* cancelTrade without the check that the caller is a party of the trade
cancelTrade_AnyCaller(p, user, id, reason) ==
  /\ Free(p)
  /\ IF user = 0 THEN Return(p, "UserNotFound")
     ELSE IF ~Found(id) THEN Return(p, "TradeNotFound")
     ELSE LET existingTrade == findById(id) IN
       IF existingTrade.status # "OPENED" THEN Return(p, "InvalidStateTransition")
       ELSE Await(p, [Idle EXCEPT !.pc = "getBalance", !.op = "cancelTrade",
                                  !.id = id, !.reason = reason,
                                  !.seller = existingTrade.seller,
                                  !.escrowAmount = existingTrade.btc_amount_original,
                                  !.by = IF existingTrade.buyer = user
                                           THEN "buyer" ELSE "seller"])
  /\ ops' = IF proc'[p].pc = "idle" THEN ops ELSE ops + 1
  /\ UNCHANGED <<call, expected, trades, balance, now, cache, escrow, ledger, failures>>

\* TradeController.cancelTrade up to the awaited getBalance
cancelTrade(p, user, id, reason) ==
  /\ Free(p)
  /\ IF user = 0 THEN Return(p, "UserNotFound")
     ELSE IF ~Found(id) THEN Return(p, "TradeNotFound")
     ELSE LET existingTrade == findById(id) IN
       IF existingTrade.buyer # user /\ existingTrade.seller # user
         THEN Return(p, "NotParticipant")
       ELSE IF existingTrade.status # "OPENED" THEN Return(p, "InvalidStateTransition")
       ELSE Await(p, [Idle EXCEPT !.pc = "getBalance", !.op = "cancelTrade",
                                  !.id = id, !.reason = reason,
                                  !.seller = existingTrade.seller,
                                  !.escrowAmount = existingTrade.btc_amount_original,
                                  !.by = IF existingTrade.buyer = user
                                           THEN "buyer" ELSE "seller"])
  /\ ops' = IF proc'[p].pc = "idle" THEN ops ELSE ops + 1
  /\ UNCHANGED <<call, expected, trades, balance, now, cache, escrow, ledger, failures>>

\* cancelTrade: the awaited getBalance of the seller
cancelTrade_getBalance(p) ==
  /\ At(p, "cancelTrade", "getBalance")
  /\ Await(p, [proc[p] EXCEPT !.pc = "setBalance",
                              !.sellerBalance = getBalance(proc[p].seller)])
  /\ escrow' = [escrow EXCEPT ![proc[p].id].sellerBefore =
                  [known |-> TRUE, value |-> getBalance(proc[p].seller)]]
  /\ UNCHANGED <<call, expected, trades, balance, now, cache, ledger, failures, ops>>

\* cancelTrade: the awaited setBalance, which writes the balance read plus the
\* escrow amount
cancelTrade_setBalance(p) ==
  /\ At(p, "cancelTrade", "setBalance")
  /\ LET l == proc[p] IN
       /\ balance' = setBalance(l.seller, l.sellerBalance + l.escrowAmount)
       /\ ledger' = [ledger EXCEPT ![l.seller] = @ + l.escrowAmount]
       /\ escrow' = Touch([escrow EXCEPT ![l.id].credited = @ + l.escrowAmount,
                                         ![l.id].refunds = @ + 1], l.seller, l.id)
       /\ Await(p, [l EXCEPT !.pc = "cancelTrade"])
  /\ UNCHANGED <<call, expected, trades, now, cache, failures, ops>>

\* TradeRepository.cancelTrade and the response
cancelTrade_cancelTrade(p) ==
  /\ At(p, "cancelTrade", "cancelTrade")
  /\ LET l == proc[p] IN
       trades' = [trades EXCEPT
         ![l.id].status = IF l.by = "buyer" THEN "CANCELLED_BUYER" ELSE "CANCELLED_SELLER",
         ![l.id].cancelled = IF l.reason # "" THEN l.reason ELSE "User cancelled"]
  /\ Return(p, "ok")
  /\ UNCHANGED <<call, expected, balance, now, cache, escrow, ledger, failures, ops>>

(* ----------------------------- openDispute ---------------------------- *)

\* C19 mutant: openDispute without the check that no dispute is open yet
openDispute_NoOpenCheck(p, user, id, reason, explanation) ==
  /\ Free(p)
  /\ IF user = 0 THEN Return(p, "UserNotFound")
     ELSE IF ~Found(id) THEN Return(p, "TradeNotFound")
     ELSE LET existingTrade == findById(id) IN
       IF existingTrade.buyer # user /\ existingTrade.seller # user
         THEN Return(p, "NotParticipant")
       ELSE IF existingTrade.status \notin {"OPENED", "PAID"}
         THEN Return(p, "InvalidStateTransition")
       ELSE Await(p, [Idle EXCEPT !.pc = "openDispute", !.op = "openDispute",
                                  !.id = id, !.reason = reason,
                                  !.explanation = explanation,
                                  !.by = IF existingTrade.buyer = user
                                           THEN "buyer" ELSE "seller"])
  /\ ops' = IF proc'[p].pc = "idle" THEN ops ELSE ops + 1
  /\ UNCHANGED <<call, expected, trades, balance, now, cache, escrow, ledger, failures>>

\* TradeController.openDispute up to the awaited tradeService.openDispute
openDispute(p, user, id, reason, explanation) ==
  /\ Free(p)
  /\ IF user = 0 THEN Return(p, "UserNotFound")
     ELSE IF ~Found(id) THEN Return(p, "TradeNotFound")
     ELSE LET existingTrade == findById(id) IN
       IF existingTrade.buyer # user /\ existingTrade.seller # user
         THEN Return(p, "NotParticipant")
       ELSE IF existingTrade.dispute_started THEN Return(p, "DisputeAlreadyOpen")
       ELSE IF existingTrade.status \notin {"OPENED", "PAID"}
         THEN Return(p, "InvalidStateTransition")
       ELSE Await(p, [Idle EXCEPT !.pc = "openDispute", !.op = "openDispute",
                                  !.id = id, !.reason = reason,
                                  !.explanation = explanation,
                                  !.by = IF existingTrade.buyer = user
                                           THEN "buyer" ELSE "seller"])
  /\ ops' = IF proc'[p].pc = "idle" THEN ops ELSE ops + 1
  /\ UNCHANGED <<call, expected, trades, balance, now, cache, escrow, ledger, failures>>

\* TradeRepository.openDispute and the response
openDispute_openDispute(p) ==
  /\ At(p, "openDispute", "openDispute")
  /\ LET l == proc[p] IN
       trades' = [trades EXCEPT
         ![l.id].dispute_started = TRUE,
         ![l.id].dispute_reason = l.reason,
         ![l.id].dispute_explanation = l.explanation,
         ![l.id].dispute_started_by = l.by,
         ![l.id].status = "DISPUTED"]
  /\ Return(p, "ok")
  /\ UNCHANGED <<call, expected, balance, now, cache, escrow, ledger, failures, ops>>

(* ---------------------------- resolveDispute -------------------------- *)

\* TradeController.resolveDispute up to the awaited tradeService.resolveDispute;
\* the role check is commented out in the source
resolveDispute(p, user, id, awarded_to, mod_notes) ==
  /\ Free(p)
  /\ IF user = 0 THEN Return(p, "UserNotFound")
     ELSE IF ~Found(id) THEN Return(p, "TradeNotFound")
     ELSE LET trade == findById(id) IN
       IF ~trade.dispute_started THEN Return(p, "NoDisputeExists")
       ELSE Await(p, [Idle EXCEPT !.pc = "resolveDispute", !.op = "resolveDispute",
                                  !.id = id, !.by = awarded_to,
                                  !.notes = mod_notes])
  /\ ops' = IF proc'[p].pc = "idle" THEN ops ELSE ops + 1
  /\ UNCHANGED <<call, expected, trades, balance, now, cache, escrow, ledger, failures>>

\* C20 mutant: TradeRepository.resolveDispute leaves dispute_started set
resolveDispute_resolveDispute_DisputeLeftOpen(p) ==
  /\ At(p, "resolveDispute", "resolveDispute")
  /\ LET l == proc[p] IN
       trades' = [trades EXCEPT
         ![l.id].status = IF l.by = "buyer" THEN "AWARDED_BUYER" ELSE "AWARDED_SELLER",
         ![l.id].dispute_mod_notes = l.notes]
  /\ Return(p, "ok")
  /\ UNCHANGED <<call, expected, balance, now, cache, escrow, ledger, failures, ops>>

\* TradeRepository.resolveDispute and the response
resolveDispute_resolveDispute(p) ==
  /\ At(p, "resolveDispute", "resolveDispute")
  /\ LET l == proc[p] IN
       trades' = [trades EXCEPT
         ![l.id].status = IF l.by = "buyer" THEN "AWARDED_BUYER" ELSE "AWARDED_SELLER",
         ![l.id].dispute_mod_notes = l.notes,
         ![l.id].dispute_started = FALSE]
  /\ Return(p, "ok")
  /\ UNCHANGED <<call, expected, balance, now, cache, escrow, ledger, failures, ops>>

(* ---------------------------- releaseCrypto --------------------------- *)

Max(a, b) == IF a >= b THEN a ELSE b

\* TradeController.releaseCrypto up to the awaited getBalance of the seller
releaseCrypto(p, user, id) ==
  /\ Free(p)
  /\ IF user = 0 THEN Return(p, "UserNotFound")
     ELSE IF ~Found(id) THEN Return(p, "TradeNotFound")
     ELSE LET existingTrade == findById(id)
              escrowAmount == existingTrade.btc_amount_original
              buyerAmount == existingTrade.btc_amount_with_margin
          IN
       IF existingTrade.seller # user THEN Return(p, "NotParticipant")
       ELSE IF existingTrade.status # "PAID" THEN Return(p, "InvalidStateTransition")
       ELSE Await(p, [Idle EXCEPT !.pc = "getBalanceSeller", !.op = "releaseCrypto",
                                  !.id = id,
                                  !.seller = existingTrade.seller,
                                  !.buyer = existingTrade.buyer,
                                  !.escrowAmount = escrowAmount,
                                  !.buyerAmount = buyerAmount,
                                  !.sellerAmount = Max(escrowAmount - buyerAmount, 0)])
  /\ ops' = IF proc'[p].pc = "idle" THEN ops ELSE ops + 1
  /\ UNCHANGED <<call, expected, trades, balance, now, cache, escrow, ledger, failures>>

\* releaseCrypto: the awaited getBalance of the seller
releaseCrypto_getBalanceSeller(p) ==
  /\ At(p, "releaseCrypto", "getBalanceSeller")
  /\ Await(p, [proc[p] EXCEPT !.pc = "getBalanceBuyer",
                              !.sellerBalance = getBalance(proc[p].seller)])
  /\ UNCHANGED <<call, expected, trades, balance, now, cache, escrow, ledger, failures, ops>>

\* releaseCrypto: the awaited getBalance of the buyer
releaseCrypto_getBalanceBuyer(p) ==
  /\ At(p, "releaseCrypto", "getBalanceBuyer")
  /\ Await(p, [proc[p] EXCEPT !.pc = "setBalanceBuyer",
                              !.buyerBalance = getBalance(proc[p].buyer)])
  /\ UNCHANGED <<call, expected, trades, balance, now, cache, escrow, ledger, failures, ops>>

\* releaseCrypto: the awaited setBalance of the buyer; the seller's setBalance
\* follows only when sellerAmount > 0
releaseCrypto_setBalanceBuyer(p) ==
  /\ At(p, "releaseCrypto", "setBalanceBuyer")
  /\ LET l == proc[p] IN
       /\ balance' = setBalance(l.buyer, l.buyerBalance + l.buyerAmount)
       /\ ledger' = [ledger EXCEPT ![l.buyer] = @ + l.buyerAmount]
       /\ escrow' = Touch([escrow EXCEPT ![l.id].credited = @ + l.buyerAmount,
                                         ![l.id].buyerCredits = @ + 1], l.buyer, 0)
       /\ Await(p, [l EXCEPT !.pc = IF l.sellerAmount > 0 THEN "setBalanceSeller"
                                                          ELSE "releaseCrypto"])
  /\ UNCHANGED <<call, expected, trades, now, cache, failures, ops>>

\* releaseCrypto: the awaited setBalance of the seller
releaseCrypto_setBalanceSeller(p) ==
  /\ At(p, "releaseCrypto", "setBalanceSeller")
  /\ LET l == proc[p] IN
       /\ balance' = setBalance(l.seller, l.sellerBalance + l.sellerAmount)
       /\ ledger' = [ledger EXCEPT ![l.seller] = @ + l.sellerAmount]
       /\ escrow' = Touch([escrow EXCEPT ![l.id].credited = @ + l.sellerAmount],
                          l.seller, 0)
       /\ Await(p, [l EXCEPT !.pc = "releaseCrypto"])
  /\ UNCHANGED <<call, expected, trades, now, cache, failures, ops>>

\* TradeRepository.releaseCrypto and the response
releaseCrypto_releaseCrypto(p) ==
  /\ At(p, "releaseCrypto", "releaseCrypto")
  /\ trades' = [trades EXCEPT ![proc[p].id].status = "SUCCESSFUL",
                              ![proc[p].id].escrow_return = FALSE]
  /\ escrow' = [escrow EXCEPT ![proc[p].id].released = @ + 1]
  /\ Return(p, "ok")
  /\ UNCHANGED <<call, expected, balance, now, cache, ledger, failures, ops>>

(* ----------------------------- reopenTrade ---------------------------- *)

\* C17 mutant: reopenTrade takes the escrow amount from btc_amount_with_margin
reopenTrade_WithMargin(p, user, id) ==
  /\ Free(p)
  /\ IF user = 0 THEN Return(p, "UserNotFound")
     ELSE IF ~Found(id) THEN Return(p, "TradeNotFound")
     ELSE LET existingTrade == findById(id) IN
       IF existingTrade.buyer # user /\ existingTrade.seller # user
         THEN Return(p, "NotParticipant")
       ELSE IF existingTrade.status \notin {"CANCELLED_BUYER", "CANCELLED_SELLER"}
         THEN Return(p, "InvalidStateTransition")
       ELSE Await(p, [Idle EXCEPT !.pc = "getBalance", !.op = "reopenTrade",
                                  !.id = id,
                                  !.seller = existingTrade.seller,
                                  !.escrowAmount = existingTrade.btc_amount_with_margin])
  /\ ops' = IF proc'[p].pc = "idle" THEN ops ELSE ops + 1
  /\ UNCHANGED <<call, expected, trades, balance, now, cache, escrow, ledger, failures>>

\* TradeController.reopenTrade up to the awaited getBalance
reopenTrade(p, user, id) ==
  /\ Free(p)
  /\ IF user = 0 THEN Return(p, "UserNotFound")
     ELSE IF ~Found(id) THEN Return(p, "TradeNotFound")
     ELSE LET existingTrade == findById(id) IN
       IF existingTrade.buyer # user /\ existingTrade.seller # user
         THEN Return(p, "NotParticipant")
       ELSE IF existingTrade.status \notin {"CANCELLED_BUYER", "CANCELLED_SELLER"}
         THEN Return(p, "InvalidStateTransition")
       ELSE Await(p, [Idle EXCEPT !.pc = "getBalance", !.op = "reopenTrade",
                                  !.id = id,
                                  !.seller = existingTrade.seller,
                                  !.escrowAmount = existingTrade.btc_amount_original])
  /\ ops' = IF proc'[p].pc = "idle" THEN ops ELSE ops + 1
  /\ UNCHANGED <<call, expected, trades, balance, now, cache, escrow, ledger, failures>>

\* reopenTrade: the awaited getBalance of the seller and the balance check
reopenTrade_getBalance(p) ==
  /\ At(p, "reopenTrade", "getBalance")
  /\ LET l == proc[p]
         sellerBalance == getBalance(l.seller)
     IN
       IF sellerBalance < l.escrowAmount THEN Return(p, "InsufficientEscrowBalance")
       ELSE Await(p, [l EXCEPT !.pc = "setBalance", !.sellerBalance = sellerBalance])
  /\ UNCHANGED <<call, expected, trades, balance, now, cache, escrow, ledger, failures, ops>>

\* reopenTrade: the awaited setBalance, which writes the balance read minus the
\* escrow amount
reopenTrade_setBalance(p) ==
  /\ At(p, "reopenTrade", "setBalance")
  /\ LET l == proc[p] IN
       /\ balance' = setBalance(l.seller, l.sellerBalance - l.escrowAmount)
       /\ ledger' = [ledger EXCEPT ![l.seller] = @ - l.escrowAmount]
       /\ escrow' = Touch([escrow EXCEPT ![l.id].debited = @ + l.escrowAmount,
                                         ![l.id].locks = @ + 1,
                                         ![l.id].sellerBefore = Unknown], l.seller, l.id)
       /\ Await(p, [l EXCEPT !.pc = "reopenTrade"])
  /\ UNCHANGED <<call, expected, trades, now, cache, failures, ops>>

\* TradeService.reopenTrade (TradeRepository.update) and the response
reopenTrade_reopenTrade(p) ==
  /\ At(p, "reopenTrade", "reopenTrade")
  /\ trades' = [trades EXCEPT ![proc[p].id].status = "OPENED",
                              ![proc[p].id].cancelled = "NA",
                              ![proc[p].id].expiry_time = now + ReopenExpiryMinutes]
  /\ Return(p, "ok")
  /\ UNCHANGED <<call, expected, balance, now, cache, escrow, ledger, failures, ops>>

(* ----------------------------- expireTrade ---------------------------- *)

\* C24 mutant: TradeRepository.expireTrade appends to the cancelled reason
expireTrade_AppendReason(id) ==
  /\ response = "none"
  /\ Found(id)
  /\ ops < MaxOps
  /\ ops' = ops + 1
  /\ trades' = [trades EXCEPT ![id].status = "CANCELLED_SYSTEM",
                              ![id].cancelled =
                                 IF @ = "Trade expired" THEN "Trade expired again"
                                 ELSE "Trade expired"]
  /\ escrow' = [escrow EXCEPT ![id].reExpired =
                  IF trades[id].status = "CANCELLED_SYSTEM"
                     /\ trades[id].cancelled = "Trade expired" THEN @ + 1 ELSE @]
  /\ response' = "none"
  /\ UNCHANGED <<call, expected, balance, proc, now, cache, ledger, failures>>

\* TradeService.expireTrade: TradeRepository.expireTrade on the row with this id
expireTrade(id) ==
  /\ response = "none"
  /\ Found(id)
  /\ ops < MaxOps
  /\ ops' = ops + 1
  /\ trades' = [trades EXCEPT ![id].status = "CANCELLED_SYSTEM",
                              ![id].cancelled = "Trade expired"]
  /\ escrow' = [escrow EXCEPT ![id].reExpired =
                  IF trades[id].status = "CANCELLED_SYSTEM"
                     /\ trades[id].cancelled = "Trade expired" THEN @ + 1 ELSE @]
  /\ response' = "none"
  /\ UNCHANGED <<call, expected, balance, proc, now, cache, ledger, failures>>

(* ------------------------------- system ------------------------------- *)

\* the response of the handler that has just returned leaves the server
Respond ==
  /\ response # "none"
  /\ response' = "none"
  /\ expected' = "none"
  /\ UNCHANGED <<call, trades, balance, proc, now, cache, escrow, ledger, failures, ops>>

\* the clock advances
Tick ==
  /\ response = "none"
  /\ now + TickMinutes <= MaxTime
  /\ now' = now + TickMinutes
  /\ UNCHANGED <<call, expected, trades, balance, proc, response, cache, escrow, ledger, failures, ops>>

\* the calls that write to the database
WriteCalls ==
  {<<"createTrade", "setBalance">>, <<"createTrade", "create">>,
   <<"markPaid", "markPaid">>,
   <<"cancelTrade", "setBalance">>, <<"cancelTrade", "cancelTrade">>,
   <<"openDispute", "openDispute">>, <<"resolveDispute", "resolveDispute">>,
   <<"releaseCrypto", "setBalanceBuyer">>, <<"releaseCrypto", "setBalanceSeller">>,
   <<"releaseCrypto", "releaseCrypto">>,
   <<"reopenTrade", "setBalance">>, <<"reopenTrade", "reopenTrade">>}

\* the database write handler p awaits throws: the catch block of the handler
\* answers with the error, and what the handler wrote before stays written
dbFailure(p) ==
  /\ response = "none"
  /\ <<proc[p].op, proc[p].pc>> \in WriteCalls
  /\ failures < MaxFailures
  /\ failures' = failures + 1
  /\ Return(p, "ServiceError")
  /\ UNCHANGED <<call, expected, trades, balance, now, cache, escrow, ledger, ops>>

\* request ids are opaque keys: a request carries a key already sent or the
\* first key not sent yet
FreshRequestIds ==
  {r \in RequestIds :
     \/ r = "r1"
     \/ \E i \in 1..Len(trades) : trades[i].request_id = "r1"
     \/ \E q \in Procs : proc[q].rid = "r1"}

\* a request arrives and its handler runs up to its first awaited write or read
Accept ==
  \/ \E p \in Procs, user \in Callers, offer_id \in OfferInputs, fiat_amount \in FiatAmounts,
        request_id \in FreshRequestIds :
       createTrade(p, user, offer_id, fiat_amount, request_id)
  \/ \E p \in Procs, user \in Callers, id \in TradeIds : markPaid(p, user, id)
  \/ \E p \in Procs, user \in Callers, id \in TradeIds, reason \in CancelReasons :
       cancelTrade(p, user, id, reason)
  \/ \E p \in Procs, user \in Callers, id \in TradeIds, reason \in DisputeReasons,
        explanation \in DisputeExplanations :
       openDispute(p, user, id, reason, explanation)
  \/ \E p \in Procs, user \in Callers, id \in TradeIds, awarded_to \in {"buyer", "seller"},
        mod_notes \in ModNotes :
       resolveDispute(p, user, id, awarded_to, mod_notes)
  \/ \E p \in Procs, user \in Callers, id \in TradeIds : releaseCrypto(p, user, id)
  \/ \E p \in Procs, user \in Callers, id \in TradeIds : reopenTrade(p, user, id)

\* a handler in flight takes its next step, a trade is expired, a response leaves
Step ==
  \/ \E p \in Procs, vpn \in BOOLEAN, country \in Countries :
       createTrade_getCount(p, vpn, country)
  \/ \E p \in Procs, respOk \in BOOLEAN, raw \in Rates : createTrade_getBtcPrice(p, respOk, raw)
  \/ \E p \in Procs : createTrade_getBalance(p)
  \/ \E p \in Procs : createTrade_setBalance(p)
  \/ \E p \in Procs : createTrade_create(p)
  \/ \E p \in Procs : markPaid_markPaid(p)
  \/ \E p \in Procs : cancelTrade_getBalance(p)
  \/ \E p \in Procs : cancelTrade_setBalance(p)
  \/ \E p \in Procs : cancelTrade_cancelTrade(p)
  \/ \E p \in Procs : openDispute_openDispute(p)
  \/ \E p \in Procs : resolveDispute_resolveDispute(p)
  \/ \E p \in Procs : releaseCrypto_getBalanceSeller(p)
  \/ \E p \in Procs : releaseCrypto_getBalanceBuyer(p)
  \/ \E p \in Procs : releaseCrypto_setBalanceBuyer(p)
  \/ \E p \in Procs : releaseCrypto_setBalanceSeller(p)
  \/ \E p \in Procs : releaseCrypto_releaseCrypto(p)
  \/ \E p \in Procs : reopenTrade_getBalance(p)
  \/ \E p \in Procs : reopenTrade_setBalance(p)
  \/ \E p \in Procs : reopenTrade_reopenTrade(p)
  \/ \E id \in TradeIds : expireTrade(id)
  \/ Respond

\* concurrent request handlers
Next == Accept \/ Step

\* no handler is in flight
AllIdle == \A p \in Procs : proc[p].pc = "idle"

\* the handlers served one at a time, the clock and failing database writes
NextFail ==
  \/ AllIdle /\ Accept
  \/ Step
  \/ Tick
  \/ \E p \in Procs : dbFailure(p)

Spec == Init /\ [][Next]_vars

SpecFail == Init /\ [][NextFail]_vars

(* ------------------------ the pricing functions ------------------------ *)

\* arguments of the pricing functions, in hundredths: margins of -13.00,
\* -0.01, 0, 0.01, 1.00, 2.00, 5.00 and 13.00 percent, prices of 0.50, 1.00,
\* 3.00 and 128.00, fiat amounts of 0, 0.01, 0.50, 1.00 and 3.00
MarginInputs == {-1300, -1, 0, 1, 100, 200, 500, 1300}
PriceInputs == {50, 100, 300, 12800}
FiatInputs == {0, 1, 50, 100, 300}

\* the trade tables are empty and the arguments of a call are drawn
InitPricing ==
  /\ trades = <<>>
  /\ balance = InitBalance
  /\ proc = [p \in Procs |-> Idle]
  /\ response = "none"
  /\ now = 0
  /\ cache = [c \in {"USD"} |-> NoEntry]
  /\ escrow = <<>>
  /\ ledger = [u \in Users |-> 0]
  /\ failures = 0
  /\ ops = 0
  /\ expected = "none"
  /\ \E m \in MarginInputs, price \in PriceInputs, f \in FiatInputs :
       call = [NoCall EXCEPT !.marginPct = m, !.currentBtcPrice = price,
                             !.fiatAmount = f]

\* priceService.calculatePricing(marginPct, currentBtcPrice, fiatAmount)
callCalculatePricing ==
  /\ ~call.priced
  /\ \E r \in calculatePricingResults(InputScale, call.marginPct,
                                      call.currentBtcPrice, call.fiatAmount) :
       call' = [call EXCEPT !.priced = TRUE, !.pricing = r]
  /\ UNCHANGED <<trades, balance, proc, response, now, cache, escrow, ledger,
                 failures, ops, expected>>

\* priceService.convertFiatToBtc(fiatAmount, currentBtcPrice)
callConvertFiatToBtc ==
  /\ ~call.converted
  /\ \E r \in convertFiatToBtcResults(call.fiatAmount, call.currentBtcPrice) :
       call' = [call EXCEPT !.converted = TRUE, !.btc = r]
  /\ UNCHANGED <<trades, balance, proc, response, now, cache, escrow, ledger,
                 failures, ops, expected>>

NextPricing == callCalculatePricing \/ callConvertFiatToBtc

SpecPricing == InitPricing /\ [][NextPricing]_vars

(* --------------------------- the price cache --------------------------- *)

\* the clock of the price cache runs up to MaxClock minutes
MaxClock == 6

\* arguments of getBtcPrice and answers of the exchange-rate endpoint: a rate
\* of 0 stands for a missing, zero or non-numeric rate
CurrencyInputs == {"usd", "USD"}
RateAnswers == {0, 50000, 60000}

\* priceService.getBtcPrice(fiatCurrency)
callGetBtcPrice(fiatCurrency, respOk, raw) ==
  /\ LET r == getBtcPrice(fiatCurrency, respOk, raw)
     IN  /\ cache' = r.cache
         /\ call' = [call EXCEPT !.asked = TRUE, !.at = now,
                                 !.threw = r.threw, !.value = r.value]
  /\ UNCHANGED <<trades, balance, proc, response, now, escrow, ledger, failures,
                 ops, expected>>

\* a minute passes
TickMinute ==
  /\ now < MaxClock
  /\ now' = now + 1
  /\ UNCHANGED <<trades, balance, proc, response, cache, escrow, ledger, failures,
                 ops, expected, call>>

NextCache ==
  \/ \E fiatCurrency \in CurrencyInputs, respOk \in BOOLEAN, raw \in RateAnswers :
       callGetBtcPrice(fiatCurrency, respOk, raw)
  \/ TickMinute

SpecCache == Init /\ [][NextCache]_vars

(* ====================================================================== *)
(* Properties                                                             *)
(* ====================================================================== *)

\* the rows (state, trigger) of the transition table of the lifecycle
TransitionTable ==
  { <<"OPENED", "markPaid">>, <<"OPENED", "cancelTrade">>,
    <<"OPENED", "openDispute">>, <<"PAID", "openDispute">>,
    <<"PAID", "releaseCrypto">>, <<"DISPUTED", "resolveDispute">>,
    <<"CANCELLED_BUYER", "reopenTrade">>, <<"CANCELLED_SELLER", "reopenTrade">>,
    <<"OPENED", "expireTrade">> }

\* the edges (from, to) of the transition table
TransitionEdges ==
  { <<"OPENED", "PAID">>, <<"OPENED", "CANCELLED_BUYER">>,
    <<"OPENED", "CANCELLED_SELLER">>, <<"OPENED", "DISPUTED">>,
    <<"PAID", "DISPUTED">>, <<"PAID", "SUCCESSFUL">>,
    <<"DISPUTED", "AWARDED_BUYER">>, <<"DISPUTED", "AWARDED_SELLER">>,
    <<"CANCELLED_BUYER", "OPENED">>, <<"CANCELLED_SELLER", "OPENED">>,
    <<"OPENED", "CANCELLED_SYSTEM">> }

\* the triggers a request handler serves
HandlerTriggers ==
  {"markPaid", "cancelTrade", "openDispute", "resolveDispute", "releaseCrypto",
   "reopenTrade"}

\* this step is handler p letting a request for trigger T past its checks
Accepted(p, T) ==
  proc[p].pc = "idle" /\ proc'[p].pc # "idle" /\ proc'[p].op = T

\* this step is handler p answering a request with an error before any await
Rejected(p) ==
  /\ proc[p].pc = "idle" /\ proc'[p].pc = "idle"
  /\ response = "none" /\ response' \notin {"none", "ok"}

\* this step is expireTrade writing trade id (only expireTrade writes this text)
Expired(id) ==
  /\ id \in 1..Len(trades) /\ Len(trades') = Len(trades)
  /\ trades'[id].cancelled = "Trade expired"
  /\ ops' = ops + 1 /\ proc' = proc

\* C1: a trigger T invoked on a trade in a state S with (S, T) not in the
\* transition table fails: no handler lets it past its checks, expireTrade
\* leaves the trade as it is, and a rejected request changes neither a trade
\* nor a balance.
C1_IllegalTransitionFails ==
  [][ /\ \A p \in Procs : \A T \in HandlerTriggers :
           Accepted(p, T) =>
             <<trades[proc'[p].id].status, T>> \in TransitionTable
      /\ \A id \in TradeIds :
           (Expired(id) /\ <<trades[id].status, "expireTrade">> \notin TransitionTable)
             => trades'[id] = trades[id]
      /\ \A p \in Procs :
           Rejected(p) => trades' = trades /\ balance' = balance ]_vars

\* C2: every change of the status of a trade is an edge of the transition
\* table, and a new trade starts OPENED, in every interleaving of the handlers
\* and of expireTrade.
C2_StatusChangesAreEdges ==
  [][ /\ \A id \in 1..Len(trades) :
           trades'[id].status # trades[id].status =>
             <<trades[id].status, trades'[id].status>> \in TransitionEdges
      /\ \A id \in (Len(trades) + 1)..Len(trades') :
           trades'[id].status = "OPENED" ]_vars

\* C3: the escrow of a trade is credited out (by a cancel refund or by a
\* release) at most once per time it was locked (by create or reopen), and the
\* total credited out never exceeds the total debited from the seller for it.
C3_EscrowCreditedOncePerLock ==
  \A t \in 1..Len(escrow) :
    /\ escrow[t].refunds + escrow[t].buyerCredits <= escrow[t].locks
    /\ escrow[t].credited <= escrow[t].debited

\* C4: of the releaseCrypto calls on one trade at most one succeeds, and the
\* buyer is credited for the trade at most once.
C4_ReleaseAtMostOnce ==
  \A t \in 1..Len(escrow) :
    escrow[t].released <= 1 /\ escrow[t].buyerCredits <= 1

\* C5: no balance update is lost: once every handler has finished, the balance
\* of every user is the initial balance plus the credits and minus the debits
\* of the operations that wrote it.
C5_NoLostUpdate ==
  AllIdle => \A u \in Users : balance[u] = InitBalance[u] + ledger[u]

\* C6: a releaseCrypto call splits the escrow exactly: the credit of the buyer
\* plus the return to the seller is btc_amount_original, whatever the margin.
\* The balances of the buyer and of the seller together rise by the amount
\* locked at creation: a trade locked once and released once has been credited
\* out what was debited for it.
C6_ReleaseConservesEscrow ==
  /\ \A p \in Procs :
       proc[p].op = "releaseCrypto" =>
         proc[p].buyerAmount + proc[p].sellerAmount = proc[p].escrowAmount
  /\ \A t \in 1..Len(escrow) :
       ( /\ escrow[t].locks = 1 /\ escrow[t].refunds = 0
         /\ escrow[t].buyerCredits = 1 /\ escrow[t].released = 1 )
         => escrow[t].credited = escrow[t].debited

\* C7: at most one persisted trade carries a given request_id.
C7_RequestIdUnique ==
  \A i, j \in 1..Len(trades) :
    trades[i].request_id = trades[j].request_id => i = j

\* the handlers that write a balance
BalanceOps == {"createTrade", "cancelTrade", "reopenTrade", "releaseCrypto"}

\* this step is handler p answering with the error of a failed database write
FailedReturn(p) ==
  proc[p].pc # "idle" /\ proc'[p].pc = "idle" /\ response' = "ServiceError"

\* C8: balance and status writes of create, cancel, reopen and releaseCrypto
\* are all-or-nothing: when a write of the operation fails, the balances the
\* operation read before writing are the balances again (handlers are served
\* one at a time here, so what a handler read is what was there when it began).
C8_AllOrNothing ==
  [][ \A p \in Procs :
        (FailedReturn(p) /\ proc[p].op \in BalanceOps) =>
          /\ balance'[proc[p].seller] = proc[p].sellerBalance
          /\ proc[p].op = "releaseCrypto" =>
               balance'[proc[p].buyer] = proc[p].buyerBalance ]_vars

\* C9: the balance of every user is non-negative in every reachable state.
C9_BalancesNonNegative ==
  \A u \in Users : balance[u] >= 0

\* C10: create locks the escrow only out of a seller balance that covers it and
\* lowers that balance by exactly btc_amount_original, leaving every other
\* balance alone; its success adds exactly one trade, OPENED, with
\* dispute_started and escrow_return false; with a smaller balance it answers
\* with the insufficient-escrow error and changes neither a trade nor a balance.
C10_CreateLocksEscrow ==
  [][ \A p \in Procs :
        LET l == proc[p] IN
        /\ (l.op = "createTrade" /\ l.pc = "setBalance" /\ proc'[p].pc = "create") =>
             /\ balance[l.seller] >= l.btcOrig
             /\ balance' = [balance EXCEPT ![l.seller] = @ - l.btcOrig]
        /\ (l.op = "createTrade" /\ l.pc = "create" /\ proc'[p].pc = "idle"
              /\ response' = "ok") =>
             /\ Len(trades') = Len(trades) + 1
             /\ SubSeq(trades', 1, Len(trades)) = trades
             /\ trades'[Len(trades')].status = "OPENED"
             /\ ~trades'[Len(trades')].dispute_started
             /\ ~trades'[Len(trades')].escrow_return
             /\ balance' = balance
        /\ (l.op = "createTrade" /\ l.pc = "getBalance" /\ proc'[p].pc = "idle") =>
             /\ response' = "InsufficientEscrowBalance"
             /\ balance[l.seller] < l.btcOrig
             /\ trades' = trades /\ balance' = balance ]_vars

(* ------------------------- eligibility of create ----------------------- *)

\* the errors of the eligibility rules
EligibilityErrors ==
  {"OfferNotFound", "OfferInactive", "SelfTrade", "AccountNotActive",
   "OfferDeauthorized", "VerificationRequired", "FullNameRequired",
   "AmountOutOfBounds"} \cup LateErrors

\* C11: the eligibility rules of create are evaluated in the order offer
\* exists, offer active, no self-trade, account health, offer not deauthorized,
\* ID verification, full name, amount bounds, trade history, VPN/Tor, country:
\* a request (of a known user, with a fresh request_id) that fails one or
\* several rules is answered with the error of the earliest one it fails, and
\* an eligibility error is only ever the answer to a request whose earliest
\* failing rule it belongs to.
C11_EligibilityOrder ==
  /\ expected # "none" => response = expected
  /\ response \in EligibilityErrors => expected = response

\* C11 witness: a request was answered OfferInactive; the only offer that is not
\* active (offer 3) is also de-authorized, so the request fails two rules and
\* the answer is the error of the earlier one
C11_Witness == response = "OfferInactive" /\ expected = "OfferInactive"

\* the errors a create request is answered with when it is rejected before the
\* escrow of its trade is locked
CreateRejections ==
  {"UserNotFound", "DuplicateRequestId", "PriceUnavailable",
   "InsufficientEscrowBalance"} \cup EligibilityErrors

\* a createTrade handler takes a step that leaves it before its setBalance call
CreateStepBeforeLock ==
  \E p \in Procs :
    /\ proc'[p] # proc[p]
    /\ proc'[p].op = "createTrade"
    /\ proc'[p].pc \in {"getCount", "getBtcPrice", "getBalance", "setBalance"}

\* C12: a create call that is rejected before the escrow lock (a failing
\* eligibility rule, a duplicate request_id, an unavailable price) mutates
\* nothing: none of its steps up to the rejection persists a trade or changes a
\* balance (offers are never written by any handler).
C12_RejectedCreateMutatesNothing ==
  [][ (response' \in CreateRejections \/ CreateStepBeforeLock)
      => trades' = trades /\ balance' = balance /\ escrow' = escrow /\ ledger' = ledger ]_vars

\* C12 witness: with a trade persisted and its escrow debited, a create request
\* was rejected for its used request_id
C12_Witness ==
  /\ Len(trades) >= 1
  /\ response = "DuplicateRequestId"
  /\ balance # InitBalance

\* the handler in slot p takes a step
Steps(p) == proc'[p] # proc[p]

\* the pricing of the create request in slot p is complete: the price was
\* fetched, the amounts were computed from it and the parties were assigned
PricingComplete(p) ==
  LET l == proc[p]
      offer == OfferTable[l.offer]
  IN  /\ \E price \in Rates \ {0} :
           /\ l.pricing = calculatePricing(offer.margin, price, l.fiat)
           /\ l.btcOrig = convertFiatToBtc(l.fiat, price)
      /\ {l.seller, l.buyer} = {l.user, offer.user_id}
      /\ FirstFailing(EligibilityChecks(l.user, l.offer, l.fiat, FALSE, "", MaxTrades + 1))
           = "none"

\* C13: within a create call the eligibility checks, the price fetch and the
\* pricing computation are complete before the seller's balance is read for
\* the escrow lock or written: the handler reaches its getBalance call only
\* from a successful price fetch, which follows the last eligibility rule, and
\* it writes a balance only in its setBalance call.  When the price fetch
\* fails or yields no usable price the call ends at once with
\* PriceUnavailable (no second fetch) and writes no balance, trade or cache
\* entry.
C13_PricingBeforeEscrow ==
  [][ \A p \in Procs :
        /\ (proc[p].op = "createTrade" /\ proc[p].pc \in {"getBalance", "setBalance", "create"})
             => PricingComplete(p)
        /\ (Steps(p) /\ proc'[p].op = "createTrade" /\ proc'[p].pc = "getBalance")
             => proc[p].pc = "getBtcPrice"
        /\ (Steps(p) /\ proc'[p].op = "createTrade" /\ proc'[p].pc = "getBtcPrice")
             => proc[p].pc = "getCount" /\ expected' = "none"
        /\ (Steps(p) /\ proc[p].op = "createTrade" /\ proc[p].pc # "setBalance")
             => balance' = balance
        /\ At(p, "createTrade", "getBtcPrice") =>
             \A respOk \in BOOLEAN, raw \in Rates :
               ( /\ createTrade_getBtcPrice(p, respOk, raw)
                 /\ LET r == getBtcPrice(OfferTable[proc[p].offer].currency, respOk, raw)
                    IN  r.threw \/ r.value = 0 )
               => /\ response' = "PriceUnavailable"
                  /\ proc'[p] = Idle
                  /\ trades' = trades /\ balance' = balance /\ cache' = cache ]_vars

\* C13 witness: a create request was answered PriceUnavailable while another
\* create handler, which has passed the eligibility rules, awaits the price
C13_Witness ==
  /\ response = "PriceUnavailable"
  /\ \E p \in Procs : proc[p].op = "createTrade" /\ proc[p].pc = "getBtcPrice"

\* C14: every persisted trade has a buyer different from its seller, in every
\* reachable state.
C14_BuyerIsNotSeller ==
  \A i \in 1..Len(trades) : trades[i].buyer # trades[i].seller

\* C14 witness: a trade on a sell offer (the owner sells) and a trade on a buy
\* offer (the owner buys) are persisted
C14_Witness ==
  \E i, j \in 1..Len(trades) :
    /\ OfferTable[trades[i].offer_id].type = "sell" /\ trades[i].seller = 1
    /\ OfferTable[trades[j].offer_id].type = "buy" /\ trades[j].buyer = 2

\* the other trades and the columns of trade id outside the set Cols are the
\* same after the step
OnlyColumnsChange(id, Cols) ==
  /\ Len(trades') = Len(trades)
  /\ \A i \in 1..Len(trades) : \A c \in DOMAIN trades[i] :
       (i # id \/ c \notin Cols) => trades'[i][c] = trades[i][c]

\* C15: markPaid succeeds only when the caller is the buyer of the trade and
\* the trade is OPENED when the call checks it; its write sets the status to
\* PAID and changes nothing else, in particular no balance; a call by the
\* seller (or anyone but the buyer), or on a trade in another status, is not
\* let through, and a call that fails changes neither a trade nor a balance.
C15_MarkPaid ==
  [][ \A p \in Procs :
        /\ Accepted(p, "markPaid") =>
             LET id == proc'[p].id IN
               /\ Found(id) /\ trades[id].status = "OPENED"
               /\ \A user \in Callers : markPaid(p, user, id) => user = trades[id].buyer
               /\ trades' = trades /\ balance' = balance
        /\ markPaid_markPaid(p) =>
             /\ trades'[proc[p].id].status = "PAID"
             /\ OnlyColumnsChange(proc[p].id, {"status"})
             /\ balance' = balance
             /\ response' = "ok"
        /\ Rejected(p) => trades' = trades /\ balance' = balance ]_vars

\* C15 witness: a markPaid call has just succeeded: the trade is PAID, and the
\* escrow is still debited from the seller
C15_Witness ==
  /\ response = "ok"
  /\ \E id \in 1..Len(trades) :
       /\ trades[id].status = "PAID"
       /\ balance[trades[id].seller] = InitBalance[trades[id].seller] - trades[id].btc_amount_original

\* the status a cancel by the party named by sets
CancelledBy(by) == IF by = "buyer" THEN "CANCELLED_BUYER" ELSE "CANCELLED_SELLER"

\* the preconditions and the status written by cancel: a cancel is let through
\* only on a trade that is OPENED when the call checks it and only for its
\* buyer or its seller, and its last write sets CANCELLED_BUYER when the caller
\* is the buyer and CANCELLED_SELLER when the caller is the seller
CancelContract(p) ==
  /\ Accepted(p, "cancelTrade") =>
       LET id == proc'[p].id IN
         /\ Found(id) /\ trades[id].status = "OPENED"
         /\ \A user \in Callers, reason \in CancelReasons :
              cancelTrade(p, user, id, reason) =>
                \/ user = trades[id].buyer /\ proc'[p].by = "buyer"
                \/ user = trades[id].seller /\ proc'[p].by = "seller"
         /\ trades' = trades /\ balance' = balance
  /\ cancelTrade_cancelTrade(p) =>
       /\ trades'[proc[p].id].status = CancelledBy(proc[p].by)
       /\ OnlyColumnsChange(proc[p].id, {"status", "cancelled"})
       /\ balance' = balance

\* C16: cancel succeeds only on an OPENED trade and only for its buyer or
\* seller; its refund increases the balance of the seller by exactly
\* btc_amount_original and leaves every other balance (the buyer's included)
\* unchanged, and the status becomes CANCELLED_BUYER or CANCELLED_SELLER by
\* caller.
C16_Cancel ==
  [][ \A p \in Procs :
        /\ CancelContract(p)
        /\ cancelTrade_setBalance(p) =>
             LET t == trades[proc[p].id] IN
               balance' = [balance EXCEPT ![t.seller] = @ + t.btc_amount_original] ]_vars

\* the part of C16 that does not depend on the balance read
C16_CancelStatus == [][ \A p \in Procs : CancelContract(p) ]_vars

\* C17: cancelling an OPENED trade and then reopening it, with no other
\* operation on the seller's balance in between, leaves the seller's balance
\* equal to its value before the cancel and the trade OPENED; the amount
\* re-debited by reopen is the amount credited by cancel (btc_amount_original,
\* which no step changes).
C17_CancelThenReopen ==
  [][ /\ \A p \in Procs :
           /\ cancelTrade_setBalance(p) =>
                escrow'[proc[p].id].credited - escrow[proc[p].id].credited
                  = trades[proc[p].id].btc_amount_original
           /\ reopenTrade_setBalance(p) =>
                LET id == proc[p].id
                    t == trades[id]
                    before == escrow[id].sellerBefore
                IN  /\ escrow'[id].debited - escrow[id].debited = t.btc_amount_original
                    /\ before.known => balance'[t.seller] = before.value
           /\ reopenTrade_reopenTrade(p) => trades'[proc[p].id].status = "OPENED"
      /\ \A id \in 1..Len(trades) :
           trades'[id].btc_amount_original = trades[id].btc_amount_original ]_vars

\* C17 witness: a trade was cancelled and reopened, nothing else was written to
\* the seller's balance, and the reopen has just debited the seller
C17_Witness ==
  \E p \in Procs :
    /\ proc[p].op = "reopenTrade" /\ proc[p].pc = "reopenTrade"
    /\ escrow[proc[p].id].refunds = 1 /\ escrow[proc[p].id].locks = 2
    /\ balance[proc[p].seller] = InitBalance[proc[p].seller] - proc[p].escrowAmount

\* the preconditions of reopen and what it writes to the trade: a reopen is let
\* through only for a party of a trade that is CANCELLED_BUYER or
\* CANCELLED_SELLER when the call checks it, it goes on to its setBalance only
\* when the balance it reads is at least btc_amount_original and otherwise
\* fails, a reopen that fails changes neither a trade nor a balance, and its
\* last write sets status OPENED, cancelled 'NA' and an expiry_time later than
\* now
ReopenContract(p) ==
  /\ Accepted(p, "reopenTrade") =>
       LET id == proc'[p].id IN
         /\ Found(id) /\ trades[id].status \in {"CANCELLED_BUYER", "CANCELLED_SELLER"}
         /\ \A user \in Callers :
              reopenTrade(p, user, id) => user \in {trades[id].buyer, trades[id].seller}
         /\ trades' = trades /\ balance' = balance
  /\ reopenTrade_getBalance(p) =>
       LET t == trades[proc[p].id] IN
         /\ trades' = trades /\ balance' = balance
         /\ IF balance[t.seller] >= t.btc_amount_original
              THEN proc'[p].pc = "setBalance"
              ELSE proc'[p].pc = "idle" /\ response' = "InsufficientEscrowBalance"
  /\ reopenTrade_reopenTrade(p) =>
       LET id == proc[p].id IN
         /\ trades'[id].status = "OPENED"
         /\ trades'[id].cancelled = "NA"
         /\ trades'[id].expiry_time > now
         /\ OnlyColumnsChange(id, {"status", "cancelled", "expiry_time"})
         /\ balance' = balance
  /\ Rejected(p) => trades' = trades /\ balance' = balance

\* C18: reopen succeeds only for a party of a trade in CANCELLED_BUYER or
\* CANCELLED_SELLER and only when the seller's balance is at least
\* btc_amount_original; it debits the seller btc_amount_original, sets status
\* OPENED, resets cancelled to 'NA' and sets expiry_time to a deadline later
\* than now; on a CANCELLED_SYSTEM trade, on any other status or with an
\* insufficient seller balance it fails and changes neither the trade nor a
\* balance.
C18_Reopen ==
  [][ \A p \in Procs :
        /\ ReopenContract(p)
        /\ reopenTrade_setBalance(p) =>
             LET t == trades[proc[p].id] IN
               /\ balance[t.seller] >= t.btc_amount_original
               /\ balance' = [balance EXCEPT ![t.seller] = @ - t.btc_amount_original] ]_vars

\* the part of C18 that does not depend on the balance being the one read
C18_ReopenStatus == [][ \A p \in Procs : ReopenContract(p) ]_vars

\* C19: openDispute succeeds only when the caller is the buyer or the seller,
\* the trade is OPENED or PAID and dispute_started is false when the call
\* checks it; its write sets dispute_started, dispute_started_by (the role of
\* the caller), dispute_reason and dispute_explanation (the values supplied)
\* and status DISPUTED and changes no balance; a call by a party on a trade
\* whose dispute is already open fails with DisputeAlreadyOpen, and a call
\* that fails changes neither a trade nor a balance.
C19_OpenDispute ==
  [][ \A p \in Procs :
        /\ Accepted(p, "openDispute") =>
             LET id == proc'[p].id IN
               /\ Found(id)
               /\ trades[id].status \in {"OPENED", "PAID"}
               /\ ~trades[id].dispute_started
               /\ \A user \in Callers, reason \in DisputeReasons,
                     explanation \in DisputeExplanations :
                    openDispute(p, user, id, reason, explanation) =>
                      /\ \/ user = trades[id].buyer /\ proc'[p].by = "buyer"
                         \/ user = trades[id].seller /\ proc'[p].by = "seller"
                      /\ proc'[p].reason = reason /\ proc'[p].explanation = explanation
               /\ trades' = trades /\ balance' = balance
        /\ openDispute_openDispute(p) =>
             LET id == proc[p].id IN
               /\ trades'[id].dispute_started
               /\ trades'[id].dispute_started_by = proc[p].by
               /\ trades'[id].dispute_reason = proc[p].reason
               /\ trades'[id].dispute_explanation = proc[p].explanation
               /\ trades'[id].status = "DISPUTED"
               /\ OnlyColumnsChange(id, {"dispute_started", "dispute_started_by",
                                         "dispute_reason", "dispute_explanation", "status"})
               /\ balance' = balance
        /\ (proc[p].pc = "idle" /\ response = "none") =>
             \A id \in 1..Len(trades) :
               trades[id].dispute_started =>
                 \A user \in {trades[id].buyer, trades[id].seller},
                    reason \in DisputeReasons, explanation \in DisputeExplanations :
                   openDispute(p, user, id, reason, explanation) =>
                     /\ response' = "DisputeAlreadyOpen"
                     /\ trades' = trades /\ balance' = balance
        /\ Rejected(p) => trades' = trades /\ balance' = balance ]_vars

\* C19 witness: a dispute is open on a trade and a second openDispute was
\* answered DisputeAlreadyOpen
C19_Witness ==
  /\ response = "DisputeAlreadyOpen"
  /\ \E id \in 1..Len(trades) :
       /\ trades[id].status = "DISPUTED" /\ trades[id].dispute_started
       /\ trades[id].dispute_started_by \in {"buyer", "seller"}

\* C20: resolveDispute requires dispute_started: on a trade without an open
\* dispute it fails with NoDisputeExists and changes nothing; its write sets
\* the status to AWARDED_BUYER or AWARDED_SELLER according to awarded_to,
\* dispute_started to false and dispute_mod_notes to the notes supplied, and
\* changes no balance.
C20_ResolveDispute ==
  [][ \A p \in Procs :
        /\ Accepted(p, "resolveDispute") =>
             LET id == proc'[p].id IN
               /\ Found(id) /\ trades[id].dispute_started
               /\ \A user \in Callers, awarded_to \in {"buyer", "seller"},
                     mod_notes \in ModNotes :
                    resolveDispute(p, user, id, awarded_to, mod_notes) =>
                      proc'[p].by = awarded_to /\ proc'[p].notes = mod_notes
               /\ trades' = trades /\ balance' = balance
        /\ resolveDispute_resolveDispute(p) =>
             LET id == proc[p].id IN
               /\ trades'[id].status =
                    (IF proc[p].by = "buyer" THEN "AWARDED_BUYER" ELSE "AWARDED_SELLER")
               /\ ~trades'[id].dispute_started
               /\ trades'[id].dispute_mod_notes = proc[p].notes
               /\ OnlyColumnsChange(id, {"status", "dispute_started", "dispute_mod_notes"})
               /\ balance' = balance
        /\ (proc[p].pc = "idle" /\ response = "none") =>
             \A id \in 1..Len(trades) :
               ~trades[id].dispute_started =>
                 \A user \in Users, awarded_to \in {"buyer", "seller"},
                    mod_notes \in ModNotes :
                   resolveDispute(p, user, id, awarded_to, mod_notes) =>
                     /\ response' = "NoDisputeExists"
                     /\ trades' = trades /\ balance' = balance ]_vars

\* C20 witness: a dispute has just been resolved for the seller: the trade is
\* AWARDED_SELLER, its dispute is closed and the notes are recorded
C20_Witness ==
  /\ response = "ok"
  /\ \E id \in 1..Len(trades) :
       /\ trades[id].status = "AWARDED_SELLER"
       /\ ~trades[id].dispute_started
       /\ trades[id].dispute_mod_notes \in ModNotes
       /\ trades[id].dispute_started_by \in {"buyer", "seller"}

\* the roles the commented-out check of resolveDispute names
ModeratorRoles == {"admin", "moderator"}

\* C21: resolveDispute changes a trade only when the trade is DISPUTED and the
\* caller is a moderator: a request is let through to the write only then, and
\* a call by a user who is no moderator (the buyer or the seller of the trade,
\* say) fails and leaves the trade unchanged.
C21_ResolveByModerator ==
  [][ \A p \in Procs :
        Accepted(p, "resolveDispute") =>
          LET id == proc'[p].id IN
            /\ trades[id].status = "DISPUTED"
            /\ \A user \in Users, awarded_to \in {"buyer", "seller"}, mod_notes \in ModNotes :
                 resolveDispute(p, user, id, awarded_to, mod_notes) =>
                   UserTable[user].role \in ModeratorRoles ]_vars

\* the preconditions of releaseCrypto and the status it writes: a release is
\* let through only for the seller of a trade that is PAID when the call
\* checks it, a release that fails changes neither a trade nor a balance, its
\* balance reads change nothing and its last write sets status SUCCESSFUL
ReleaseContract(p) ==
  /\ Accepted(p, "releaseCrypto") =>
       LET id == proc'[p].id IN
         /\ Found(id) /\ trades[id].status = "PAID"
         /\ \A user \in Callers : releaseCrypto(p, user, id) => user = trades[id].seller
         /\ trades' = trades /\ balance' = balance
  /\ (releaseCrypto_getBalanceSeller(p) \/ releaseCrypto_getBalanceBuyer(p)) =>
       trades' = trades /\ balance' = balance
  /\ releaseCrypto_releaseCrypto(p) =>
       /\ trades'[proc[p].id].status = "SUCCESSFUL"
       /\ OnlyColumnsChange(proc[p].id, {"status", "escrow_return"})
       /\ balance' = balance
  /\ Rejected(p) => trades' = trades /\ balance' = balance

\* C22: releaseCrypto succeeds only when the caller is the seller of the trade
\* and the trade is PAID; it increases the balance of the buyer by
\* btc_amount_with_margin and the balance of the seller by
\* max(btc_amount_original - btc_amount_with_margin, 0), leaves all other
\* balances unchanged and sets the status to SUCCESSFUL; called by the buyer
\* or on a trade in another status it fails and changes nothing.
C22_Release ==
  [][ \A p \in Procs :
        /\ ReleaseContract(p)
        /\ releaseCrypto_setBalanceBuyer(p) =>
             LET t == trades[proc[p].id] IN
               balance' = [balance EXCEPT ![t.buyer] = @ + t.btc_amount_with_margin]
        /\ releaseCrypto_setBalanceSeller(p) =>
             LET t == trades[proc[p].id] IN
               balance' = [balance EXCEPT ![t.seller] =
                             @ + Max(t.btc_amount_original - t.btc_amount_with_margin, 0)]
        /\ (At(p, "releaseCrypto", "setBalanceBuyer") /\ Steps(p)
              /\ proc'[p].pc = "releaseCrypto") =>
             LET t == trades[proc[p].id] IN
               Max(t.btc_amount_original - t.btc_amount_with_margin, 0) = 0 ]_vars

\* the part of C22 that does not depend on the balances being the ones read
C22_ReleaseStatus == [][ \A p \in Procs : ReleaseContract(p) ]_vars

\* C23: expire changes a trade to CANCELLED_SYSTEM only when the trade is
\* OPENED and its expiry_time has passed; applied to a trade in another status
\* or to an OPENED trade whose expiry_time has not passed, it leaves the status
\* of the trade unchanged.
C23_ExpireOnlyDueOpened ==
  [][ \A id \in TradeIds :
        Expired(id) =>
          IF trades[id].status = "OPENED" /\ trades[id].expiry_time <= now
            THEN trades'[id].status = "CANCELLED_SYSTEM"
            ELSE trades'[id].status = trades[id].status ]_vars

\* C24: expire is idempotent: a second expire on a trade that expire already
\* moved to CANCELLED_SYSTEM returns without an error and leaves the trade (its
\* status and its cancelled reason included) and all balances as the first
\* call left them.
C24_ExpireIdempotent ==
  [][ \A id \in TradeIds :
        ( /\ expireTrade(id)
          /\ trades[id].status = "CANCELLED_SYSTEM"
          /\ trades[id].cancelled = "Trade expired" )
        => /\ trades' = trades
           /\ balance' = balance
           /\ response' = "none" ]_vars

\* C24 witness: expire ran again on a trade it had expired
C24_Witness ==
  \E id \in 1..Len(trades) :
    /\ escrow[id].reExpired >= 1
    /\ trades[id].status = "CANCELLED_SYSTEM" /\ trades[id].cancelled = "Trade expired"

\* the statuses that are terminal for the ledger
TerminalStatuses == {"SUCCESSFUL", "CANCELLED_SYSTEM", "AWARDED_BUYER", "AWARDED_SELLER"}

\* C25: once the status of a trade is SUCCESSFUL, CANCELLED_SYSTEM,
\* AWARDED_BUYER or AWARDED_SELLER, no later operation changes its status or
\* moves a balance on its behalf.
C25_TerminalStatusesStay ==
  [][ \A id \in 1..Len(trades) :
        trades[id].status \in TerminalStatuses =>
          /\ trades'[id].status = trades[id].status
          /\ escrow'[id].debited = escrow[id].debited
          /\ escrow'[id].credited = escrow[id].credited ]_vars

\* C26: calculatePricing(margin, marketPrice, fiatAmount) returns, for
\* margin < 0, price = marketPrice * (1 - |margin| / 100) and fiat =
\* fiatAmount * (1 + |margin| / 100), otherwise price = marketPrice *
\* (1 + margin / 100) and fiat = fiatAmount * (1 - margin / 100); the crypto
\* amount is the unrounded fiat with margin divided by the unmodified market
\* price; price and fiat are rounded half up to 2 decimals, the crypto amount
\* to 8 decimals; margin 5, price 50000 and fiat 1000 give 52500.00, 950.00
\* and 0.01900000
C26_CalculatePricing ==
  /\ call.priced =>
       LET margin == call.marginPct
           marketPrice == call.currentBtcPrice
           fiatAmount == call.fiatAmount
           hundred == 100 * InputScale
           priceNum == IF margin < 0 THEN marketPrice * (hundred - Abs(margin))
                                     ELSE marketPrice * (hundred + margin)
           fiatNum == IF margin < 0 THEN fiatAmount * (hundred + Abs(margin))
                                    ELSE fiatAmount * (hundred - margin)
       IN  /\ call.pricing.price = RoundScaled(priceNum, hundred * InputScale, 2)
           /\ call.pricing.fiat_amount_with_margin =
                RoundScaled(fiatNum, hundred * InputScale, 2)
           /\ call.pricing.btc_amount_with_margin =
                RoundScaled(fiatNum, hundred * marketPrice, 8)
  /\ calculatePricingResults(1, 5, 50000, 1000) =
       { [price |-> 5250000, fiat_amount_with_margin |-> 95000,
          btc_amount_with_margin |-> 1900000] }

\* C27: for all margins m1 < m2, every market price p > 0 and every fiat
\* amount f > 0, calculatePricing gives a strictly larger price and a
\* strictly smaller fiat with margin for m2 than for m1, also across the
\* sign change of the margin at 0
C27_StrictlyMonotonic ==
  call.priced /\ call.currentBtcPrice > 0 /\ call.fiatAmount > 0 =>
    \A m2 \in MarginInputs :
      call.marginPct < m2 =>
        \A r2 \in calculatePricingResults(InputScale, m2, call.currentBtcPrice,
                                          call.fiatAmount) :
          /\ r2.price > call.pricing.price
          /\ r2.fiat_amount_with_margin < call.pricing.fiat_amount_with_margin

\* btc * p - f in units of 10^-8, for btc in satoshi (the product is taken
\* in two halves of four digits)
RoundTripError(btc, p, f) ==
  ((btc \div 10000) * p - f * 10000) * 10000 + (btc % 10000) * p

\* C28: for every fiat amount f and market price p > 0, convertFiatToBtc(f, p)
\* is f / p rounded to 8 decimals: multiplied back by p it differs from f by
\* no more than p * 0.000000005
C28_RoundTrip ==
  call.converted /\ call.currentBtcPrice > 0 =>
    2 * Abs(RoundTripError(call.btc, call.currentBtcPrice, call.fiatAmount))
      <= call.currentBtcPrice

\* C28: a conversion of a positive amount was rounded up to the next satoshi
C28_Witness ==
  /\ call.converted
  /\ call.fiatAmount > 0
  /\ RoundTripError(call.btc, call.currentBtcPrice, call.fiatAmount) > 0

\* the amount lies outside the bounds of the offer, a bound of 0 being none
OutOfBounds(offer, fiat_amount) ==
  \/ offer.minimum # 0 /\ fiat_amount < offer.minimum
  \/ offer.maximum # 0 /\ fiat_amount > offer.maximum

\* C29: create is rejected with the amount-out-of-bounds error exactly when
\* the minimum of the offer is not 0 and fiat_amount is below it, or the
\* maximum is not 0 and fiat_amount is above it: every request answered with
\* that error asked for such an amount, and every request that gets past the
\* check asked for an amount within the bounds (a bound of 0 is no limit and
\* an amount equal to a bound is accepted)
C29_AmountBounds ==
  [][ \A p \in Procs :
        /\ Rejected(p) /\ response' = "AmountOutOfBounds" =>
             \A user \in Callers, offer_id \in OfferInputs,
                fiat_amount \in FiatAmounts, request_id \in RequestIds :
               createTrade(p, user, offer_id, fiat_amount, request_id) =>
                 /\ offer_id \in OfferIds
                 /\ OutOfBounds(OfferTable[offer_id], fiat_amount)
        /\ Accepted(p, "createTrade") =>
             ~OutOfBounds(OfferTable[proc'[p].offer], proc'[p].fiat) ]_vars

\* C29: a request was rejected for its amount while another, asking for
\* exactly the minimum of its offer, has passed the check
C29_Witness ==
  /\ response = "AmountOutOfBounds"
  /\ \E p \in Procs :
       /\ proc[p].pc = "getCount"
       /\ OfferTable[proc[p].offer].minimum # 0
       /\ proc[p].fiat = OfferTable[proc[p].offer].minimum

\* the parties of the trade that the create request in slot p asks for
SellerOf(p) ==
  IF OfferTable[proc[p].offer].type = "sell" THEN OfferTable[proc[p].offer].user_id
  ELSE proc[p].user

BuyerOf(p) ==
  IF OfferTable[proc[p].offer].type = "sell" THEN proc[p].user
  ELSE OfferTable[proc[p].offer].user_id

\* C30: in a created trade the seller is the offer owner and the buyer the
\* requester when the offer is a 'sell' offer, and the seller is the requester
\* and the buyer the offer owner when it is a 'buy' offer; the escrow is
\* debited from the user recorded as the seller of the trade, never from the
\* buyer
C30_PartiesAndEscrow ==
  [][ \A p \in Procs :
        /\ At(p, "createTrade", "setBalance") /\ Steps(p) /\ proc'[p].pc = "create" =>
             /\ balance'[SellerOf(p)] = proc[p].sellerBalance - proc[p].btcOrig
             /\ \A u \in Users \ {SellerOf(p)} : balance'[u] = balance[u]
             /\ BuyerOf(p) # SellerOf(p)
        /\ At(p, "createTrade", "create") /\ Steps(p) /\ Len(trades') = Len(trades) + 1 =>
             /\ trades'[Len(trades')].seller = SellerOf(p)
             /\ trades'[Len(trades')].buyer = BuyerOf(p)
             /\ trades'[Len(trades')].offer_id = proc[p].offer ]_vars

\* C30: a trade on a 'buy' offer exists whose seller is the requester, not
\* the offer owner, and the seller's balance is below the initial one
C30_Witness ==
  \E id \in 1..Len(trades) :
    /\ OfferTable[trades[id].offer_id].type = "buy"
    /\ trades[id].buyer = OfferTable[trades[id].offer_id].user_id
    /\ trades[id].seller # trades[id].buyer
    /\ balance[trades[id].seller] = InitBalance[trades[id].seller] - trades[id].btc_amount_original

\* the trades in which the user is a party and that were completed
CompletedTrades(userId) ==
  Cardinality({i \in 1..Len(trades) :
                 /\ trades[i].buyer = userId \/ trades[i].seller = userId
                 /\ trades[i].status = "SUCCESSFUL"})

\* C31: when an offer restricts new traders, create is rejected with the
\* insufficient-trade-history error exactly when the number of completed
\* trades of the requester is below minimum_trades of the offer; trades that
\* are not completed (OPENED, cancelled, disputed) do not count
C31_CompletedTradesCount ==
  [][ \A p \in Procs :
        At(p, "createTrade", "getCount") /\ Steps(p) =>
          LET offer == OfferTable[proc[p].offer]
          IN  response' = "InsufficientTradeHistory" <=>
                /\ offer.new_trader_limit
                /\ CompletedTrades(proc[p].user) < offer.minimum_trades ]_vars

\* the country of the caller is known and the offer excludes it
CountryExcluded(offer, country) ==
  /\ country # ""
  /\ \/ /\ offer.limit_countries = "blocked"
        /\ ToUpperCase(country) \in offer.blocked_countries
     \/ /\ offer.limit_countries = "allowed"
        /\ ToUpperCase(country) \notin offer.allowed_countries

\* C32: the country rule of create rejects a request exactly when the country
\* of the caller is known and either the offer is in 'blocked' mode and the
\* country is in the blocked list, or the offer is in 'allowed' mode and the
\* country is not in the allowed list; with an unknown country or the mode
\* 'none' the rule never rejects
C32_CountryRule ==
  [][ \A p \in Procs :
        At(p, "createTrade", "getCount") /\ Steps(p) =>
          \A vpn \in BOOLEAN, country \in Countries :
            createTrade_getCount(p, vpn, country) =>
              LET offer == OfferTable[proc[p].offer]
              IN  /\ response' = "GeoRestricted" => CountryExcluded(offer, country)
                  /\ proc'[p].pc = "getBtcPrice" => ~CountryExcluded(offer, country)
                  /\ country = "" \/ offer.limit_countries = "none" =>
                       response' # "GeoRestricted" ]_vars

\* C32: a request on an offer in 'allowed' mode has passed the country rule
C32_Witness ==
  \E p \in Procs :
       /\ proc[p].op = "createTrade" /\ proc[p].pc = "getBtcPrice"
       /\ OfferTable[proc[p].offer].limit_countries = "allowed"

\* this step is slot p taking a request up: it rejects it or goes on to its
\* first awaited call
Called(p) ==
  /\ proc[p].pc = "idle" /\ response = "none"
  /\ response' # "none" \/ proc'[p].pc # "idle"

\* the request is rejected as coming from no party of the trade, and nothing
\* is written
NotParticipantRejected(p) ==
  /\ response' = "NotParticipant"
  /\ proc'[p].pc = "idle"
  /\ trades' = trades
  /\ balance' = balance

\* C33: for each of markPaid, cancel, openDispute, reopen and releaseCrypto a
\* caller who is neither the buyer nor the seller of the trade is rejected
\* with the not-participant error before any write, whatever the status of
\* the trade, and the trade and all balances are unchanged
C33_StrangerRejected ==
  [][ \A p \in Procs :
        Called(p) =>
          \A id \in 1..Len(trades) :
            \A user \in Users \ {trades[id].buyer, trades[id].seller} :
              /\ markPaid(p, user, id) => NotParticipantRejected(p)
              /\ \A reason \in CancelReasons :
                   cancelTrade(p, user, id, reason) => NotParticipantRejected(p)
              /\ \A reason \in DisputeReasons, explanation \in DisputeExplanations :
                   openDispute(p, user, id, reason, explanation) =>
                     NotParticipantRejected(p)
              /\ reopenTrade(p, user, id) => NotParticipantRejected(p)
              /\ releaseCrypto(p, user, id) => NotParticipantRejected(p) ]_vars

\* C33: a request was rejected with the not-participant error on a trade that
\* is completed already
C33_Witness ==
  /\ response = "NotParticipant"
  /\ \E id \in 1..Len(trades) : trades[id].status = "SUCCESSFUL"

\* expireTrade has cancelled trade id and nothing has rewritten the reason
WasExpired(id) ==
  trades[id].status = "CANCELLED_SYSTEM" \/ trades[id].cancelled = "Trade expired"

\* C34: expire leaves the balance of every user unchanged: the escrow of an
\* expired trade is not refunded to the seller, and no later lifecycle
\* operation ever credits that escrow to any user
C34_ExpiredEscrowStaysLocked ==
  [][ \A id \in 1..Len(trades) :
        /\ Expired(id) => balance' = balance
        /\ WasExpired(id) =>
             /\ escrow'[id].credited = escrow[id].credited
             /\ escrow'[id].refunds = escrow[id].refunds
             /\ escrow'[id].buyerCredits = escrow[id].buyerCredits ]_vars

\* C34: expire itself writes no balance
C34_ExpireWritesNoBalance ==
  [][ \A id \in 1..Len(trades) : Expired(id) => balance' = balance ]_vars

\* an entry for the currency exists and was fetched less than the TTL ago
Fresh(currency) ==
  /\ cache[currency] # NoEntry
  /\ now - cache[currency].fetchedAt < CacheTtlMinutes

\* C35: getBtcPrice(currency) returns the cached value without fetching
\* exactly when an entry for the upper-cased currency exists and was fetched
\* less than the TTL ago; otherwise it fetches, and on a successful fetch it
\* stores the new value with the time of the call; on a failed fetch or a
\* missing, zero or non-numeric rate it raises an error, leaves the cache
\* unchanged and never returns an expired cached value
C35_PriceCache ==
  [][ \A fiatCurrency \in CurrencyInputs, respOk \in BOOLEAN, raw \in RateAnswers :
        callGetBtcPrice(fiatCurrency, respOk, raw) =>
          LET currency == "USD"
          IN  /\ Fresh(currency) =>
                   /\ ~call'.threw /\ call'.value = cache[currency].value
                   /\ cache' = cache
              /\ ~Fresh(currency) /\ respOk /\ raw # 0 =>
                   /\ ~call'.threw /\ call'.value = raw
                   /\ cache'[currency] = [value |-> raw, fetchedAt |-> now]
              /\ ~Fresh(currency) /\ (~respOk \/ raw = 0) =>
                   /\ call'.threw /\ call'.value = 0
                   /\ cache' = cache ]_vars

\* C35: a call has just raised an error while the cache holds an expired entry
C35_Witness ==
  /\ call.asked /\ call.threw /\ call.at = now
  /\ cache["USD"] # NoEntry
  /\ now - cache["USD"].fetchedAt >= CacheTtlMinutes

\* satoshi of trade id held out of the user balances: debited from the seller
\* for it and not refunded or released since
Held(id) == escrow[id].debited - escrow[id].credited

\* C36: for every trade exactly btc_amount_original is held out of the user
\* balances whenever its status is OPENED, PAID or DISPUTED, and nothing is
\* held when its status is CANCELLED_BUYER, CANCELLED_SELLER or SUCCESSFUL,
\* under any interleaving of concurrent operations on the trade (stated for
\* the states in which no handler is in flight)
C36_EscrowHeldByStatus ==
  AllIdle =>
    \A id \in 1..Len(trades) :
      /\ trades[id].status \in {"OPENED", "PAID", "DISPUTED"} =>
           Held(id) = trades[id].btc_amount_original
      /\ trades[id].status \in {"CANCELLED_BUYER", "CANCELLED_SELLER", "SUCCESSFUL"} =>
           Held(id) = 0

\* the sum of b[1], ..., b[n]
RECURSIVE SumUpTo(_, _)
SumUpTo(b, n) == IF n = 0 THEN 0 ELSE b[n] + SumUpTo(b, n - 1)

\* C37: the sum of all user balances never exceeds its initial value: no
\* sequence or interleaving of create, markPaid, cancel, openDispute,
\* resolveDispute, releaseCrypto, reopen and expire creates money, for offers
\* of any margin sign
C37_NoMoneyCreated ==
  SumUpTo(balance, Cardinality(Users)) <= SumUpTo(InitBalance, Cardinality(Users))

\* C38: in every reachable state a trade has dispute_started = true if and
\* only if its status is DISPUTED, also when openDispute runs concurrently
\* with markPaid, cancel or expire on the same trade, so that resolveDispute
\* is only ever applied to a trade in status DISPUTED
C38_DisputeFlagMatchesStatus ==
  \A id \in 1..Len(trades) :
    trades[id].dispute_started <=> trades[id].status = "DISPUTED"

\* C39: in every reachable state the cancelled field of a trade is 'NA'
\* whenever its status is OPENED, PAID, DISPUTED, SUCCESSFUL, AWARDED_BUYER or
\* AWARDED_SELLER; it holds a reason only while the status is CANCELLED_BUYER,
\* CANCELLED_SELLER or CANCELLED_SYSTEM
C39_CancelledFieldMatchesStatus ==
  \A id \in 1..Len(trades) :
    trades[id].status \in {"OPENED", "PAID", "DISPUTED", "SUCCESSFUL",
                           "AWARDED_BUYER", "AWARDED_SELLER"} =>
      trades[id].cancelled = "NA"

\* C39: the write of reopen resets the cancelled field to 'NA'
C39_ReopenResetsCancelled ==
  [][ \A p \in Procs :
        At(p, "reopenTrade", "reopenTrade") /\ Steps(p) /\ response' = "ok" =>
          trades'[proc[p].id].cancelled = "NA" ]_vars

====
